---- MODULE Spec2Model ----
(***************************************************************************)
(* Authentication and credential-exchange pipeline of go-user-management:  *)
(* the encrypted stateless OAuth state (EncryptedStateRepository), the     *)
(* authorization-code flow (OAuth2Service, OAuth2Handlers) and the STS     *)
(* credential cache (GetSTSCredentials).                                   *)
(*                                                                         *)
(* Time is in seconds (time.Now().Unix()).  Strings that the code only     *)
(* compares are TLA+ strings; strings that the code parses (state tokens,  *)
(* identity tokens, query parameters) are records of what the parser sees. *)
(***************************************************************************)
EXTENDS Integers, Sequences, FiniteSets, TLC

VARIABLES
    now,        \* the wall clock, time.Now().Unix()
    ticks,      \* how many times the clock has advanced (bounds the run)
    tok,        \* codec: the state string at hand, with where it came from
    res,        \* codec: the outcome of the ValidateAndRemoveState call just made
    oauthConfig,\* the *OAuthConfig handed to the library (NilConfig: nil)
    stsCache,   \* sts_cache.go: map from token hash to cachedCredentials
    sts,        \* one GetSTSCredentials call per goroutine: position and locals
    stsCalls,   \* the AssumeRoleWithWebIdentity requests the STS endpoint received
    stateRepo,  \* which StateRepository the OAuth2Service was built with
    oauthStates,\* the oauth_states table of the SQLite repository
    oidcReady,  \* oidc.go: oidcProvider and oidcVerifier are set
    nonces,     \* how many times GenerateSecureState has been called
    flow,       \* the browser's login flow: the authorization URL it was sent to
    req,        \* the callback request being handled
    hpc,        \* where CallbackHandler / HandleCallback stands
    hc,         \* HandleCallback: its locals and, once returned, its results
    steps,      \* the steps HandleCallback has started for this request
    resp,       \* the response to the last request
    cookie,     \* the browser's jwt cookie
    verified,   \* the identity tokens that have passed verification
    oidcProvider,   \* oidc.go: the provider global is set (not nil)
    oidcVerifier,   \* oidc.go: the verifier global is set (not nil)
    providerMutex,  \* oidc.go: the goroutine that holds the mutex (0: free)
    discoveries,    \* the discovery requests made, each with how it ended
    validating,     \* one call into oidc.go per goroutine: position and locals
    principal,      \* the conversion of claims to a principal just made, with its inputs
    netcall,        \* a network-bound call under way, with its caller's context
    repoCalls,      \* SQLite repository: one ValidateAndRemoveState call per goroutine
    stsCacheMutex,  \* sts_cache.go: the RWMutex (its writer and its readers)
    cacheOps,       \* one call of a function of sts_cache.go per goroutine
    awsLoad         \* loadAWSConfig under a request's context: position and result

clock == <<now, ticks>>
codecVars == <<tok, res>>
stsVars == <<oauthConfig, stsCache, sts, stsCalls>>
flowVars == <<stateRepo, oauthStates, oidcReady, nonces, flow, req, hpc, hc, steps,
              resp, cookie, verified>>
oidcVars == <<oidcProvider, oidcVerifier, providerMutex, discoveries, validating>>
lockVars == <<stsCacheMutex, cacheOps>>
callVars == <<principal, netcall, repoCalls, lockVars, awsLoad>>
vars == <<now, ticks, tok, res, oauthConfig, stsCache, sts, stsCalls,
          stateRepo, oauthStates, oidcReady, nonces, flow, req, hpc, hc, steps,
          resp, cookie, verified,
          oidcProvider, oidcVerifier, providerMutex, discoveries, validating,
          principal, netcall, repoCalls, stsCacheMutex, cacheOps, awsLoad>>

(***************************************************************************)
(* Bounds of the model.                                                    *)
(***************************************************************************)
MaxTicks == 4          \* clock advances per run
MaxIV == 1             \* GCM nonces are drawn from 0..MaxIV
MaskBits == 2          \* bits of sealed body / tag that a tamperer can flip
MaxUses == 2           \* acceptances of one state string that are counted

StartTime == 1000      \* the clock at process start (any Unix time)
TickSteps == {1, 59, 240}

(***************************************************************************)
(* Strings.  A Go string is any byte sequence; BadUTF8 stands for one that *)
(* is not valid UTF-8 (a query parameter redirect_url=%FF unescapes to     *)
(* it), Replaced for the same string with U+FFFD in place of the bad byte. *)
(***************************************************************************)
BadUTF8 == "https://app/\\xff"
Replaced == "https://app/\\ufffd"
RedirectURLs == {"", "https://app/dash", BadUTF8}
Nonces == {"n1", "n2"}
KeyEnvs == {"", "secret-A"}

\* encoding/json coerces strings to valid UTF-8 when marshalling.
ToValidUTF8(s) == IF s = BadUTF8 THEN Replaced ELSE s

\* sha256.Sum256 as an injective symbolic digest.
Sha256(s) == <<"sha256", s>>

\* The hard-coded string hashed when OAUTH_STATE_ENCRYPTION_KEY is not set.
DefaultSecret == "default-oauth-state-key-change-in-production"

\* Values of OAUTH_STATE_ENCRYPTION_KEY on different instances: not set, two
\* secrets, and the default string itself.
StateSecrets == {"", "secret-A", "secret-B", DefaultSecret}

\* A key that does not depend on the secret.
getOrGenerateStateKey_Fixed(keyEnv) == Sha256(DefaultSecret)

getOrGenerateStateKey(keyEnv) ==
    IF keyEnv # ""
    THEN Sha256(keyEnv)
    ELSE Sha256("default-oauth-state-key-change-in-production")

(***************************************************************************)
(* json.Marshal / json.Unmarshal of statePayload.  Plaintext that is not   *)
(* the JSON of a payload (Encrypt is exported and takes any bytes) fails   *)
(* to unmarshal.                                                           *)
(***************************************************************************)
Marshal(payload) ==
    [json |-> TRUE,
     timestamp |-> payload.Timestamp,
     redirect_url |-> ToValidUTF8(payload.RedirectURL),
     nonce |-> ToValidUTF8(payload.Nonce)]

NotJSON == [json |-> FALSE, timestamp |-> 0, redirect_url |-> "", nonce |-> ""]

Unmarshal(bytes) ==
    IF bytes.json
    THEN [err |-> FALSE,
          payload |-> [Timestamp |-> bytes.timestamp,
                       RedirectURL |-> bytes.redirect_url,
                       Nonce |-> bytes.nonce]]
    ELSE [err |-> TRUE,
          payload |-> [Timestamp |-> 0, RedirectURL |-> "", Nonce |-> ""]]

(***************************************************************************)
(* AES-256-GCM as an ideal AEAD.  Sealing pt under key k and nonce iv0     *)
(* gives the bytes  iv || body || tag ; the record keeps what was sealed   *)
(* and, as xor masks, every bit that has since been changed: iv is the     *)
(* nonce now in front, bmask / tmask the flipped bits of body and tag.     *)
(* Other byte strings are "short" (fewer than NonceSize bytes) or "other"  *)
(* (bytes no Seal produced).                                               *)
(***************************************************************************)
Seal(k, iv0, pt) ==
    [kind |-> "sealed", iv |-> iv0, k |-> k, iv0 |-> iv0, pt |-> pt,
     bmask |-> 0, tmask |-> 0]

OtherBytes == [kind |-> "other", iv |-> 0, k |-> Sha256(""), iv0 |-> 0,
               pt |-> NotJSON, bmask |-> 0, tmask |-> 0]
ShortBytes == [OtherBytes EXCEPT !.kind = "short"]

\* Counter-mode decryption that never compares the tag.
Open_Unauthenticated(k, data) ==
    IF data.kind = "sealed" /\ data.k = k
    THEN [err |-> FALSE, pt |-> data.pt]
    ELSE [err |-> TRUE, pt |-> NotJSON]

\* gcm.Open: the tag authenticates key, nonce and body.
Open(k, data) ==
    IF /\ data.kind = "sealed"
       /\ data.k = k
       /\ data.iv = data.iv0
       /\ data.bmask = 0
       /\ data.tmask = 0
    THEN [err |-> FALSE, pt |-> data.pt]
    ELSE [err |-> TRUE, pt |-> NotJSON]

(***************************************************************************)
(* base64.URLEncoding.  A string is the bytes it decodes to, whether it is *)
(* well-formed padded base64, and `slack`: 0 for the canonical encoding,   *)
(* 1 for another spelling of the same bytes (non-zero trailing bits in the *)
(* last character, or CR/LF inside), which the non-strict decoder accepts. *)
(***************************************************************************)
EncodeToString(data) == [wellformed |-> TRUE, data |-> data, slack |-> 0, raw |-> ""]

DecodeString(s) ==
    IF s.wellformed
    THEN [err |-> FALSE, data |-> s.data]
    ELSE [err |-> TRUE, data |-> ShortBytes]

\* A string that is not base64 at all, e.g. "invalid-encrypted-state".
Garbage == [wellformed |-> FALSE, data |-> OtherBytes, slack |-> 0,
            raw |-> "invalid-encrypted-state"]
\* A short well-formed string: decodes to fewer bytes than a GCM nonce.
ShortString == [wellformed |-> TRUE, data |-> ShortBytes, slack |-> 0, raw |-> "QUJD"]
\* base64.RawURLEncoding of 32 random bytes (GenerateSecureState): 43
\* characters without padding, which the padded decoder refuses.
RawNonce(n) == [wellformed |-> FALSE, data |-> OtherBytes, slack |-> 0, raw |-> n]

encrypt(key, iv, plaintext) == EncodeToString(Seal(key, iv, plaintext))

decrypt(key, ciphertext) ==
    LET dec == DecodeString(ciphertext) IN
    IF dec.err THEN [err |-> TRUE, pt |-> NotJSON]
    ELSE IF dec.data.kind = "short" THEN [err |-> TRUE, pt |-> NotJSON]
    ELSE Open(key, dec.data)

\* The payload built with its two string fields exchanged.
GenerateEncryptedState_Swapped(key, t, iv, nonce, redirectURL) ==
    encrypt(key, iv,
            Marshal([Timestamp |-> t, RedirectURL |-> nonce, Nonce |-> redirectURL]))

GenerateEncryptedState(key, t, iv, nonce, redirectURL) ==
    encrypt(key, iv,
            Marshal([Timestamp |-> t, RedirectURL |-> redirectURL, Nonce |-> nonce]))

maxAge == 300
futureSkew == 60

Invalid == [url |-> "", ok |-> FALSE]

\* The age test written with >= : a state exactly maxAge old is refused.
ValidateAndRemoveState_AgeGeq(key, t, state) ==
    LET decrypted == decrypt(key, state)
        parsed == Unmarshal(decrypted.pt)
    IN  IF decrypted.err THEN Invalid
        ELSE IF parsed.err THEN Invalid
        ELSE IF t - parsed.payload.Timestamp >= maxAge THEN Invalid
        ELSE IF parsed.payload.Timestamp > t + futureSkew THEN Invalid
        ELSE [url |-> parsed.payload.RedirectURL, ok |-> TRUE]

\* The clock-skew test left out.
ValidateAndRemoveState_NoSkew(key, t, state) ==
    LET decrypted == decrypt(key, state)
        parsed == Unmarshal(decrypted.pt)
    IN  IF decrypted.err THEN Invalid
        ELSE IF parsed.err THEN Invalid
        ELSE IF t - parsed.payload.Timestamp > maxAge THEN Invalid
        ELSE [url |-> parsed.payload.RedirectURL, ok |-> TRUE]

\* An expired state refused with its redirect target still returned.
ValidateAndRemoveState_ExpiredTarget(key, t, state) ==
    LET decrypted == decrypt(key, state)
        parsed == Unmarshal(decrypted.pt)
    IN  IF decrypted.err THEN Invalid
        ELSE IF parsed.err THEN Invalid
        ELSE IF t - parsed.payload.Timestamp > maxAge
             THEN [url |-> parsed.payload.RedirectURL, ok |-> FALSE]
        ELSE IF parsed.payload.Timestamp > t + futureSkew THEN Invalid
        ELSE [url |-> parsed.payload.RedirectURL, ok |-> TRUE]

\* A repository that accepts a state string once only.
ValidateAndRemoveState_OneTime(key, t, state) ==
    LET decrypted == decrypt(key, state)
        parsed == Unmarshal(decrypted.pt)
    IN  IF decrypted.err THEN Invalid
        ELSE IF parsed.err THEN Invalid
        ELSE IF t - parsed.payload.Timestamp > maxAge THEN Invalid
        ELSE IF parsed.payload.Timestamp > t + futureSkew THEN Invalid
        ELSE IF tok.uses > 0 THEN Invalid
        ELSE [url |-> parsed.payload.RedirectURL, ok |-> TRUE]

ValidateAndRemoveState(key, t, state) ==
    LET decrypted == decrypt(key, state)
        parsed == Unmarshal(decrypted.pt)
    IN  IF decrypted.err THEN Invalid
        ELSE IF parsed.err THEN Invalid
        ELSE IF t - parsed.payload.Timestamp > maxAge THEN Invalid
        ELSE IF parsed.payload.Timestamp > t + futureSkew THEN Invalid
        ELSE [url |-> parsed.payload.RedirectURL, ok |-> TRUE]

(***************************************************************************)
(* The codec on its own: one state string at a time is issued, crafted,    *)
(* altered and validated while the clock advances.                         *)
(***************************************************************************)
NoTok == [str |-> Garbage, origin |-> "none", by |-> "",
          nonce |-> "", redirect |-> "", ts |-> 0, uses |-> 0]
NoRes == [done |-> FALSE, url |-> "", ok |-> FALSE, by |-> "", at |-> 0]

FlipBit(x, b) == IF (x \div (2 ^ b)) % 2 = 0 THEN x + 2 ^ b ELSE x - 2 ^ b

TimestampOffsets == {-600, 59, 60, 61}

Tick(d) ==
    /\ ticks < MaxTicks
    /\ now' = now + d
    /\ ticks' = ticks + 1
    /\ res' = NoRes
    /\ UNCHANGED <<tok, stsVars, flowVars, oidcVars, callVars>>

\* NewEncryptedStateRepository() under OAUTH_STATE_ENCRYPTION_KEY = env, then
\* GenerateEncryptedState(nonce, redirectURL).
Issue(env, iv, nonce, redirectURL) ==
    /\ ticks = 0
    /\ tok' = [str |-> GenerateEncryptedState(getOrGenerateStateKey(env), now, iv,
                                              nonce, redirectURL),
               origin |-> "issue", by |-> env,
               nonce |-> nonce, redirect |-> redirectURL, ts |-> now,
               uses |-> 0]
    /\ res' = NoRes
    /\ UNCHANGED <<clock, stsVars, flowVars, oidcVars, callVars>>

\* Encrypt(plaintext) with the JSON of a payload whose timestamp the caller
\* chose (the repository's test builds expired states this way).
EncryptPayload(env, iv, off, nonce, redirectURL) ==
    /\ ticks = 0
    /\ tok' = [str |-> encrypt(getOrGenerateStateKey(env), iv,
                               Marshal([Timestamp |-> now + off,
                                        RedirectURL |-> redirectURL,
                                        Nonce |-> nonce])),
               origin |-> "encrypt", by |-> env,
               nonce |-> nonce, redirect |-> redirectURL, ts |-> now + off,
               uses |-> 0]
    /\ res' = NoRes
    /\ UNCHANGED <<clock, stsVars, flowVars, oidcVars, callVars>>

\* Encrypt(plaintext) with bytes that are not a payload's JSON.
EncryptBytes(env, iv) ==
    /\ ticks = 0
    /\ tok' = [NoTok EXCEPT !.str = encrypt(getOrGenerateStateKey(env), iv, NotJSON),
                            !.origin = "encrypt", !.by = env]
    /\ res' = NoRes
    /\ UNCHANGED <<clock, stsVars, flowVars, oidcVars, callVars>>

\* A token as its issuer made it, not yet altered on the way.
Pristine(t) == t.origin \in {"issue", "encrypt"}

\* Somebody between issuer and validator flips one bit of the token's bytes.
FlipIV(b) ==
    /\ Pristine(tok)
    /\ tok' = [tok EXCEPT !.str.data.iv = FlipBit(@, b), !.origin = "flip",
                          !.uses = 0]
    /\ res' = NoRes
    /\ UNCHANGED <<clock, stsVars, flowVars, oidcVars, callVars>>

FlipBody(b) ==
    /\ Pristine(tok)
    /\ tok' = [tok EXCEPT !.str.data.bmask = FlipBit(@, b), !.origin = "flip",
                          !.uses = 0]
    /\ res' = NoRes
    /\ UNCHANGED <<clock, stsVars, flowVars, oidcVars, callVars>>

FlipTag(b) ==
    /\ Pristine(tok)
    /\ tok' = [tok EXCEPT !.str.data.tmask = FlipBit(@, b), !.origin = "flip",
                          !.uses = 0]
    /\ res' = NoRes
    /\ UNCHANGED <<clock, stsVars, flowVars, oidcVars, callVars>>

\* The same bytes spelled differently: a trailing bit of the last base64
\* character set, or a line break inserted.
Respell ==
    /\ Pristine(tok)
    /\ tok' = [tok EXCEPT !.str.slack = 1,
                          !.origin = "respell", !.uses = 0]
    /\ res' = NoRes
    /\ UNCHANGED <<clock, stsVars, flowVars, oidcVars, callVars>>

\* A state string that no repository produced.
Foreign(s) ==
    /\ tok' = [NoTok EXCEPT !.str = s, !.origin = "foreign"]
    /\ res' = NoRes
    /\ UNCHANGED <<clock, stsVars, flowVars, oidcVars, callVars>>

ForeignStrings == {Garbage, ShortString, RawNonce("n1"),
                   EncodeToString(OtherBytes)}

\* ValidateAndRemoveState(tok) on a repository built under env.  The
\* repository keeps nothing; tok.uses counts, for the observer, how often the
\* string has been accepted (up to MaxUses).
Validate(env) ==
    /\ tok.origin # "none"
    /\ ~res.done
    /\ LET r == ValidateAndRemoveState(getOrGenerateStateKey(env), now, tok.str)
       IN /\ res' = [done |-> TRUE, url |-> r.url, ok |-> r.ok, by |-> env, at |-> now]
          /\ tok' = [tok EXCEPT !.uses = IF r.ok /\ @ < MaxUses THEN @ + 1 ELSE @]
    /\ UNCHANGED <<clock, stsVars, flowVars, oidcVars, callVars>>

(***************************************************************************)
(* Identity tokens.  A token string is the record of what parseTokenClaims *)
(* and the OIDC verifier see in it: whether it splits into three parts     *)
(* whose payload is the JSON of claims, the claims, and whether signature, *)
(* issuer and audience are the identity provider's (genuine).              *)
(***************************************************************************)
NoClaims == [Email |-> "", PreferredRole |-> "", Roles |-> <<>>]

EmptyToken == [raw |-> "", jwt |-> FALSE, genuine |-> FALSE, claims |-> NoClaims]

AdminToken ==
    [raw |-> "jwt-admin", jwt |-> TRUE, genuine |-> TRUE,
     claims |-> [Email |-> "a+b@x.io", PreferredRole |-> "role/Admin",
                 Roles |-> <<"role/User", "role/Admin">>]]
FirstRoleToken ==
    [raw |-> "jwt-first", jwt |-> TRUE, genuine |-> TRUE,
     claims |-> [Email |-> "", PreferredRole |-> "",
                 Roles |-> <<"role/User", "role/Admin">>]]
PlainToken ==
    [raw |-> "jwt-plain", jwt |-> TRUE, genuine |-> TRUE,
     claims |-> [Email |-> "c@x.io", PreferredRole |-> "", Roles |-> <<>>]]
PreferredOnlyToken ==
    [raw |-> "jwt-preferred", jwt |-> TRUE, genuine |-> TRUE,
     claims |-> [Email |-> "", PreferredRole |-> "role/Admin", Roles |-> <<>>]]
OutsideToken ==
    [raw |-> "jwt-outside", jwt |-> TRUE, genuine |-> TRUE,
     claims |-> [Email |-> "d@x.io", PreferredRole |-> "role/Root",
                 Roles |-> <<"role/User">>]]
ForgedToken ==
    [raw |-> "jwt-forged", jwt |-> TRUE, genuine |-> FALSE,
     claims |-> [Email |-> "a+b@x.io", PreferredRole |-> "role/Admin",
                 Roles |-> <<"role/Admin">>]]
MalformedToken ==
    [raw |-> "not-a-jwt", jwt |-> FALSE, genuine |-> FALSE, claims |-> NoClaims]

IDTokens == {EmptyToken, AdminToken, FirstRoleToken, PlainToken,
             PreferredOnlyToken, OutsideToken, ForgedToken, MalformedToken}

\* *OAuthConfig: nil, without STSRoleARN, with STSRoleARN.
NilConfig == [nil |-> TRUE, STSRoleARN |-> "", STSSessionName |-> ""]
Configs == {NilConfig,
            [nil |-> FALSE, STSRoleARN |-> "", STSSessionName |-> ""],
            [nil |-> FALSE, STSRoleARN |-> "role/Default", STSSessionName |-> "app"]}

\* A fingerprint that does not depend on the token.
hashToken_Constant(token) == <<"hex", 16, Sha256("")>>

\* hex of the first 16 bytes of the SHA-256 of the token string.
hashToken(token) == <<"hex", 16, Sha256(token)>>

parseTokenClaims(token) ==
    IF token.jwt
    THEN [err |-> FALSE, claims |-> token.claims]
    ELSE [err |-> TRUE, claims |-> NoClaims]

\* The allowed-roles list consulted before the preferred role.
selectRoleARN_RolesFirst(claims, config) ==
    IF Len(claims.Roles) > 0 THEN claims.Roles[1]
    ELSE IF claims.PreferredRole # "" THEN claims.PreferredRole
    ELSE config.STSRoleARN

\* A built-in role used when neither the token nor the configuration names one.
selectRoleARN_BuiltIn(claims, config) ==
    IF claims.PreferredRole # "" THEN claims.PreferredRole
    ELSE IF Len(claims.Roles) > 0 THEN claims.Roles[1]
    ELSE IF config.STSRoleARN # "" THEN config.STSRoleARN
    ELSE "role/Default"

\* The preferred role taken only when the allowed-roles list names it.
selectRoleARN_PreferredIfListed(claims, config) ==
    IF /\ claims.PreferredRole # ""
       /\ \E i \in 1..Len(claims.Roles) : claims.Roles[i] = claims.PreferredRole
    THEN claims.PreferredRole
    ELSE IF Len(claims.Roles) > 0 THEN claims.Roles[1]
    ELSE config.STSRoleARN

selectRoleARN(claims, config) ==
    IF claims.PreferredRole # "" THEN claims.PreferredRole
    ELSE IF Len(claims.Roles) > 0 THEN claims.Roles[1]
    ELSE config.STSRoleARN

\* The membership test left out.
isRoleAllowed_Always(roleARN, allowedRoles) == TRUE

isRoleAllowed(roleARN, allowedRoles) ==
    \E i \in 1..Len(allowedRoles) : allowedRoles[i] = roleARN

\* Only letters, digits and = . @ - are kept ("+" is dropped).
sanitizeSessionName(s) == IF s = "a+b@x.io" THEN "ab@x.io" ELSE s

buildSessionName(claims, config) ==
    LET sessionName == IF config.STSSessionName = "" THEN "user-session"
                       ELSE config.STSSessionName
    IN  IF claims.Email # "" /\ sanitizeSessionName(claims.Email) # ""
        THEN <<sessionName, "-", sanitizeSessionName(claims.Email)>>
        ELSE <<sessionName>>

(***************************************************************************)
(* The credential cache.  NoCreds is the nil *STSCredentials.              *)
(***************************************************************************)
cacheExpirationBuffer == 300

NoCreds == [AccessKeyID |-> 0, Expiration |-> 0]

\* A lookup that never finds anything.
getCachedCredentials_AlwaysMiss(cache, t, tokenHash) == NoCreds

\* The freshness test written with !Before: an entry with exactly the buffer
\* left is a miss.
getCachedCredentials_NotBefore(cache, t, tokenHash) ==
    IF tokenHash \notin DOMAIN cache THEN NoCreds
    ELSE IF t + cacheExpirationBuffer >= cache[tokenHash].expiresAt THEN NoCreds
    ELSE cache[tokenHash].creds

\* A lookup answered with any entry that is fresh, whatever its key.
getCachedCredentials_AnyEntry(cache, t, tokenHash) ==
    LET fresh == {h \in DOMAIN cache : t + cacheExpirationBuffer <= cache[h].expiresAt}
    IN  IF fresh = {} THEN NoCreds
        ELSE cache[CHOOSE h \in fresh : TRUE].creds

getCachedCredentials(cache, t, tokenHash) ==
    IF tokenHash \notin DOMAIN cache THEN NoCreds
    ELSE IF t + cacheExpirationBuffer > cache[tokenHash].expiresAt THEN NoCreds
    ELSE cache[tokenHash].creds

\* A store that keeps the entry already there.
setCachedCredentials_KeepFirst(cache, tokenHash, creds) ==
    IF tokenHash \in DOMAIN cache THEN cache
    ELSE [h \in DOMAIN cache \cup {tokenHash} |->
            IF h = tokenHash
            THEN [creds |-> creds, expiresAt |-> creds.Expiration]
            ELSE cache[h]]

\* A store that keeps the entry already there when it expires later.
setCachedCredentials_KeepLonger(cache, tokenHash, creds) ==
    IF tokenHash \in DOMAIN cache /\ cache[tokenHash].expiresAt > creds.Expiration
    THEN cache
    ELSE [h \in DOMAIN cache \cup {tokenHash} |->
            IF h = tokenHash
            THEN [creds |-> creds, expiresAt |-> creds.Expiration]
            ELSE cache[h]]

setCachedCredentials(cache, tokenHash, creds) ==
    [h \in DOMAIN cache \cup {tokenHash} |->
        IF h = tokenHash
        THEN [creds |-> creds, expiresAt |-> creds.Expiration]
        ELSE cache[h]]

(***************************************************************************)
(* GetSTSCredentials, one call per goroutine.  The entry checks, the cache *)
(* lookup (under the read lock) and the local role selection are one step; *)
(* the network call to STS is the second; the store (under the write       *)
(* lock) and the return are the third.                                     *)
(***************************************************************************)
MaxProcs == 2
Procs == 1..MaxProcs

FedLifetimes == {180, 600}
FedOutcomes ==
    {[kind |-> k, lifetime |-> 0] : k \in {"config-error", "sts-error", "no-credentials"}}
    \cup {[kind |-> "credentials", lifetime |-> d] : d \in FedLifetimes}

IdleCall == [pc |-> "idle", token |-> EmptyToken, role |-> "", out |-> NoCreds,
             creds |-> NoCreds, err |-> "", via |-> "", at |-> 0, after |-> {}]

\* A failed federation call left to be made again.
STSFail_TryAgain(call, msg) ==
    IF call.pc = "assume" THEN [call EXCEPT !.err = msg]
    ELSE [call EXCEPT !.pc = "done", !.creds = NoCreds, !.err = msg]

\* return nil, err
STSFail(call, msg) == [call EXCEPT !.pc = "done", !.creds = NoCreds, !.err = msg]

\* The calls for the same token string that returned credentials before now.
ReturnedFor(token) ==
    {q \in Procs : /\ sts[q].pc = "done"
                   /\ sts[q].err = ""
                   /\ sts[q].token.raw = token.raw}

\* Goroutines are numbered in the order in which their calls begin.
GetSTSCredentials(p, idToken) ==
    /\ sts[p].pc = "idle"
    /\ \A q \in 1..(p - 1) : sts[q].pc # "idle"
    /\ LET call == [IdleCall EXCEPT !.token = idToken, !.at = now,
                                    !.after = ReturnedFor(idToken)]
           cached == getCachedCredentials(stsCache, now, hashToken(idToken.raw))
           parsed == parseTokenClaims(idToken)
           roleARN == selectRoleARN(parsed.claims, oauthConfig)
       IN  sts' = [sts EXCEPT ![p] =
             IF oauthConfig.nil THEN STSFail(call, "oauth config is not set")
             ELSE IF idToken.raw = "" THEN STSFail(call, "ID token is required")
             ELSE IF cached # NoCreds
                  THEN [call EXCEPT !.pc = "done", !.creds = cached, !.via = "cache"]
             ELSE IF parsed.err THEN STSFail(call, "failed to parse token claims")
             ELSE IF roleARN = "" THEN STSFail(call, "no role ARN available")
             ELSE IF /\ Len(parsed.claims.Roles) > 0
                     /\ ~isRoleAllowed(roleARN, parsed.claims.Roles)
                  THEN STSFail(call, "role is not in the allowed roles from token")
             ELSE [call EXCEPT !.pc = "assume", !.role = roleARN]]
    /\ UNCHANGED <<clock, codecVars, flowVars, oidcVars, callVars, oauthConfig, stsCache, stsCalls>>

\* The federation call with its failure remembered: an answer without
\* credentials is stored under the token's key.
AssumeRoleWithWebIdentity_StoreFailure(p, outcome) ==
    /\ sts[p].pc = "assume"
    /\ outcome.kind = "credentials" => sts[p].token.genuine
    /\ stsCalls' =
         IF outcome.kind = "config-error" THEN stsCalls
         ELSE Append(stsCalls,
                     [token |-> sts[p].token.raw,
                      role |-> sts[p].role,
                      session |-> buildSessionName(parseTokenClaims(sts[p].token).claims,
                                                   oauthConfig),
                      by |-> p])
    /\ sts' = [sts EXCEPT ![p] =
         CASE outcome.kind = "config-error" -> STSFail(@, "failed to load AWS config")
           [] outcome.kind = "sts-error" ->
                STSFail(@, "failed to assume role with web identity")
           [] outcome.kind = "no-credentials" -> STSFail(@, "STS returned no credentials")
           [] OTHER -> [@ EXCEPT !.pc = "store",
                                 !.out = [AccessKeyID |-> Len(stsCalls) + 1,
                                          Expiration |-> now + outcome.lifetime]]]
    /\ stsCache' =
         IF outcome.kind = "no-credentials"
         THEN setCachedCredentials(stsCache, hashToken(sts[p].token.raw),
                                   [AccessKeyID |-> Len(stsCalls) + 1,
                                    Expiration |-> now + 600])
         ELSE stsCache
    /\ UNCHANGED <<clock, codecVars, flowVars, oidcVars, callVars, oauthConfig>>

\* config.LoadDefaultConfig, then AssumeRoleWithWebIdentity: the endpoint
\* answers with an error, without credentials, or with fresh credentials
\* that expire outcome.lifetime seconds from now.  It refuses a token it cannot
\* verify.
AssumeRoleWithWebIdentity(p, outcome) ==
    /\ sts[p].pc = "assume"
    /\ outcome.kind = "credentials" => sts[p].token.genuine
    /\ stsCalls' =
         IF outcome.kind = "config-error" THEN stsCalls
         ELSE Append(stsCalls,
                     [token |-> sts[p].token.raw,
                      role |-> sts[p].role,
                      session |-> buildSessionName(parseTokenClaims(sts[p].token).claims,
                                                   oauthConfig),
                      by |-> p])
    /\ sts' = [sts EXCEPT ![p] =
         CASE outcome.kind = "config-error" -> STSFail(@, "failed to load AWS config")
           [] outcome.kind = "sts-error" ->
                STSFail(@, "failed to assume role with web identity")
           [] outcome.kind = "no-credentials" -> STSFail(@, "STS returned no credentials")
           [] OTHER -> [@ EXCEPT !.pc = "store",
                                 !.out = [AccessKeyID |-> Len(stsCalls) + 1,
                                          Expiration |-> now + outcome.lifetime]]]
    /\ UNCHANGED <<clock, codecVars, flowVars, oidcVars, callVars, oauthConfig, stsCache>>

\* setCachedCredentials(tokenHash, creds); return creds, nil
StoreAndReturn(p) ==
    /\ sts[p].pc = "store"
    /\ stsCache' = setCachedCredentials(stsCache, hashToken(sts[p].token.raw), sts[p].out)
    /\ sts' = [sts EXCEPT ![p] = [@ EXCEPT !.pc = "done", !.creds = sts[p].out, !.via = "sts"]]
    /\ UNCHANGED <<clock, codecVars, flowVars, oidcVars, callVars, oauthConfig, stsCalls>>

STSTickSteps == {1, 299}

\* Time passes between and during calls.  Only differences of times matter
\* to the cache, so the clock is let run from the first call on.
STSTick(d) ==
    /\ sts[1].pc # "idle"
    /\ Tick(d)

\* No credential exchange configured or under way.
STSIdle ==
    /\ oauthConfig = NilConfig
    /\ stsCache = <<>>
    /\ sts = [p \in Procs |-> IdleCall]
    /\ stsCalls = <<>>

(***************************************************************************)
(* The authorization-code flow: OAuth2Service and OAuth2Handlers.          *)
(***************************************************************************)
MaxOAuthRetryAttempts == 3

\* The empty string as a state parameter.
EmptyString == [wellformed |-> TRUE, data |-> ShortBytes, slack |-> 0, raw |-> ""]

\* GenerateSecureState draws 32 random bytes: the i-th call of a run gives a
\* string no earlier call gave.
GenerateSecureState(i) == RawNonce("nonce-" \o ToString(i))

\* strconv.Atoi and the %d verb on the values of oauth_retry at hand.
Digits == <<"0", "1", "2", "3", "4", "5", "6", "7", "8", "9">>
Itoa(n) == IF n \in 0..9 THEN Digits[n + 1]
           ELSE IF n = -1 THEN "-1" ELSE "many"
Atoi(s) ==
    IF \E n \in 0..9 : Digits[n + 1] = s
    THEN [err |-> FALSE, n |-> CHOOSE n \in 0..9 : Digits[n + 1] = s]
    ELSE IF s = "-1" THEN [err |-> FALSE, n |-> -1]
    ELSE [err |-> TRUE, n |-> 0]

\* Values of the oauth_retry query parameter a client may send.
RetryParams == {"", "abc", "-1", "2", "3"}

getRetryAttempts(r) ==
    IF r.oauth_retry = "" THEN 0
    ELSE IF Atoi(r.oauth_retry).err THEN 0
    ELSE Atoi(r.oauth_retry).n

\* The limit test written with > : one more retry is granted.
hasExceededRetryLimit_Gt(attempts) == attempts > MaxOAuthRetryAttempts

hasExceededRetryLimit(attempts) == attempts >= MaxOAuthRetryAttempts

FrontEndURL == "https://app"
Dashboard == "https://app/dashboard"

(***************************************************************************)
(* The SQLite state repository: a table of (state, redirect_url,           *)
(* expires_at) rows.  The encrypted repository stores nothing.             *)
(***************************************************************************)
StateTTL == 300

StoreState(repo, table, state, redirectURL, expiresAt) ==
    IF repo = "sqlite"
    THEN table \cup {[state |-> state, redirect_url |-> redirectURL,
                      expires_at |-> expiresAt]}
    ELSE table

\* SELECT redirect_url WHERE state = ? AND expires_at > now, then DELETE.
SQLiteValidate(table, t, state) ==
    LET rows == {row \in table : row.state = state /\ row.expires_at > t}
    IN  IF rows = {} THEN Invalid
        ELSE [url |-> (CHOOSE row \in rows : TRUE).redirect_url, ok |-> TRUE]

SQLiteRemove(table, t, state) ==
    IF SQLiteValidate(table, t, state).ok
    THEN {row \in table : row.state # state}
    ELSE table

\* The key of the server's repository: OAUTH_STATE_ENCRYPTION_KEY is unset.
ServerKey == getOrGenerateStateKey("")

RepoValidate(repo, table, t, state) ==
    IF repo = "sqlite" THEN SQLiteValidate(table, t, state)
    ELSE ValidateAndRemoveState(ServerKey, t, state)

(***************************************************************************)
(* HandleCallback.  A call is a record of its position, its locals and,    *)
(* once it has returned, its four results.                                 *)
(***************************************************************************)
NilClaims == [Email |-> "", Role |-> ""]
NoResult == [claims |-> NilClaims, rawIDToken |-> "", redirectURL |-> "", err |-> ""]

NoLocals == [redirectURL |-> "", rawIDToken |-> EmptyToken]

\* A failure return that hands back what the call had gathered so far.
Fail_Partial(locals, msg) ==
    [claims |-> NilClaims, rawIDToken |-> locals.rawIDToken.raw,
     redirectURL |-> locals.redirectURL, err |-> msg]

\* return nil, "", "", err
Fail(locals, msg) == [NoResult EXCEPT !.err = msg]

NoURL == [state |-> EmptyString, oauth_retry |-> "", redirect |-> "", at |-> 0]
NoReq == [src |-> "", code |-> "", state |-> EmptyString, oauth_retry |-> "",
          redirect_url |-> ""]
NoFlow == [status |-> "none", requested |-> "", url |-> NoURL, redirects |-> 0,
           direct |-> 0]
NoResp == [status |-> 0, kind |-> "", location |-> "", url |-> NoURL, set_cookie |-> "",
           upstream |-> FALSE]
NoCall == [locals |-> NoLocals, result |-> NoResult]

\* writeJSONError(w, status, message)
ErrorResponse(status, message) ==
    [NoResp EXCEPT !.status = status, !.kind = message]

MaxRedirects == 4      \* callbacks the identity provider sends in one flow
MaxDirect == 1         \* callback requests a client makes up by itself

(***************************************************************************)
(* GenerateAuthURL(redirectURL).  `discovered` says whether the provider's *)
(* discovery document can be fetched, should createOAuth2Config need it.   *)
(* The authorization URL is the record of its state and oauth_retry query  *)
(* parameters; redirect and at note what it was generated for and when.    *)
(***************************************************************************)
GenerateAuthURL(redirectURL, discovered) ==
    IF ~(oidcReady \/ discovered)
    THEN [err |-> TRUE, url |-> NoURL]
    ELSE [err |-> FALSE,
          url |-> [state |-> GenerateSecureState(nonces + 1), oauth_retry |-> "",
                   redirect |-> redirectURL, at |-> now]]

\* What a GenerateAuthURL call leaves behind.
GenerateAuthURLEffects(redirectURL, discovered) ==
    LET g == GenerateAuthURL(redirectURL, discovered) IN
    /\ oidcReady' = (oidcReady \/ discovered)
    /\ nonces' = IF g.err THEN nonces ELSE nonces + 1
    /\ oauthStates' = IF g.err THEN oauthStates
                      ELSE StoreState(stateRepo, oauthStates, g.url.state, redirectURL,
                                      now + StateTTL)

LoginHandler(redirectURL, discovered) ==
    /\ hpc = "idle"
    /\ flow.status = "none"
    /\ LET g == GenerateAuthURL(redirectURL, discovered) IN
       /\ GenerateAuthURLEffects(redirectURL, discovered)
       /\ flow' = IF g.err
                  THEN [flow EXCEPT !.status = "failed", !.requested = redirectURL]
                  ELSE [flow EXCEPT !.status = "awaiting", !.requested = redirectURL,
                                    !.url = g.url]
       /\ resp' = IF g.err
                  THEN ErrorResponse(500, "Failed to generate authorization URL")
                  ELSE [NoResp EXCEPT !.status = 302, !.kind = "login", !.url = g.url]
    /\ UNCHANGED <<clock, codecVars, stsVars, oidcVars, callVars, stateRepo, req, hpc, hc, steps, cookie,
                   verified>>

\* A handler that passes every request on to HandleCallback.
Receive_Unchecked(r) ==
    /\ req' = r
    /\ steps' = <<>>
    /\ hc' = NoCall
    /\ resp' = NoResp
    /\ hpc' = "validate"

\* The top of CallbackHandler: code and state are read from the query.
Receive(r) ==
    /\ req' = r
    /\ steps' = <<>>
    /\ hc' = NoCall
    /\ IF r.code = ""
       THEN /\ resp' = ErrorResponse(400, "Missing authorization code")
            /\ hpc' = "idle"
       ELSE IF r.state = EmptyString
       THEN /\ resp' = ErrorResponse(400, "Missing state parameter")
            /\ hpc' = "idle"
       ELSE /\ resp' = NoResp
            /\ hpc' = "validate"

\* The identity provider sends the browser back to the redirect URI with a
\* code (or, refusing, without one) and the state of the authorization URL
\* the browser came with; it passes on no other parameter of that URL.
IdPRedirect(code) ==
    /\ hpc = "idle"
    /\ flow.status = "awaiting"
    /\ flow.redirects < MaxRedirects
    /\ Receive([src |-> "idp", code |-> code, state |-> flow.url.state,
                oauth_retry |-> "", redirect_url |-> ""])
    /\ flow' = IF code = "" THEN [flow EXCEPT !.status = "failed"] ELSE flow
    /\ UNCHANGED <<clock, codecVars, stsVars, oidcVars, callVars, stateRepo, oauthStates, oidcReady, nonces,
                   cookie, verified>>

\* Some other client requests the callback URL with a query of its own
\* making; the response goes to that client, not to the browser of the flow.
DirectCallback(code, state, retry, redirectURL) ==
    /\ hpc = "idle"
    /\ flow.status \in {"none", "awaiting"}
    /\ flow.direct < MaxDirect
    /\ Receive([src |-> "client", code |-> code, state |-> state,
                oauth_retry |-> retry, redirect_url |-> redirectURL])
    /\ flow' = [flow EXCEPT !.direct = @ + 1]
    /\ UNCHANGED <<clock, codecVars, stsVars, oidcVars, callVars, stateRepo, oauthStates, oidcReady, nonces,
                   cookie, verified>>

\* The state strings a client can come by: none, junk, the state of the
\* authorization URL it was sent to, a state the host application made with
\* the exported GenerateEncryptedState.
ClientStates ==
    {EmptyString, Garbage, flow.url.state,
     GenerateEncryptedState(ServerKey, now, 0, "n1", "https://app/dash")}

\* The queries a client sends: without a code, without a state, or with both
\* and any oauth_retry and redirect_url.
ClientQueries ==
    {[code |-> "", state |-> Garbage, oauth_retry |-> "", redirect_url |-> ""],
     [code |-> "code", state |-> EmptyString, oauth_retry |-> "", redirect_url |-> ""]}
    \cup {[code |-> "code", state |-> s, oauth_retry |-> n, redirect_url |-> r] :
             s \in ClientStates \ {EmptyString}, n \in RetryParams,
             r \in {"", "https://app/dash"}}
(***************************************************************************)
(* AWS operations under a request's context.  WithUserAWSCredentials puts  *)
(* the request's token into the context; loadAWSConfig exchanges it with   *)
(* GetSTSCredentials (goroutine 1 of the broker) and builds the aws.Config *)
(* the operation's client is made from.                                    *)
(***************************************************************************)
\* The jwt cookie and the Authorization header of a request.
NoHeader == [scheme |-> "", token |-> EmptyToken]
AWSRequests ==
    {[cookie |-> c, auth |-> a] :
        c \in IDTokens,
        a \in {NoHeader,
               [scheme |-> "Bearer", token |-> PlainToken],
               [scheme |-> "Bearer", token |-> ForgedToken],
               [scheme |-> "Basic", token |-> MalformedToken]}}

Regions == {"", "eu-west-1"}

\* The credentials provider of an aws.Config: none made, the static
\* provider over STS credentials, the SDK's default chain (the credentials
\* of the process itself).
NoAWSLoad == [pc |-> "idle", jwt |-> EmptyToken, Region |-> "", provider |-> "",
              creds |-> NoCreds, err |-> ""]

\* The token JWTFromContext finds in the context WithUserAWSCredentials
\* returns: the cookie's, else the bearer token, else none ("").
JWTOfRequest(r) ==
    IF r.cookie.raw # "" THEN r.cookie
    ELSE IF r.auth.scheme = "Bearer" THEN r.auth.token
    ELSE EmptyToken

\* ctx := WithUserAWSCredentials(r)
WithUserAWSCredentials(r) ==
    /\ awsLoad.pc = "idle"
    /\ awsLoad' = [NoAWSLoad EXCEPT !.pc = "ctx", !.jwt = JWTOfRequest(r)]
    /\ UNCHANGED <<clock, codecVars, stsVars, flowVars, oidcVars, principal, netcall,
                   repoCalls, lockVars>>

\* loadAWSConfig(ctx, oauthConfig) up to the exchange: without a region it
\* fails, without a token in the context it takes the default chain.
loadAWSConfig(region) ==
    /\ awsLoad.pc = "ctx"
    /\ awsLoad' =
         IF region = ""
         THEN [awsLoad EXCEPT !.pc = "done", !.err = "region is required"]
         ELSE IF awsLoad.jwt.raw # ""
              THEN [awsLoad EXCEPT !.pc = "exchange", !.Region = region]
         ELSE [awsLoad EXCEPT !.pc = "done", !.Region = region, !.provider = "default"]
    /\ UNCHANGED <<clock, codecVars, stsVars, flowVars, oidcVars, principal, netcall,
                   repoCalls, lockVars>>

\* stsCreds, err := GetSTSCredentials(ctx, token, oauthConfig)
ExchangeJWT ==
    /\ awsLoad.pc = "exchange"
    /\ GetSTSCredentials(1, awsLoad.jwt)

\* The exchange has returned: with credentials the configuration gets the
\* static provider over them; with an error the error is logged and the
\* configuration is loaded with the default chain.
LoadDefaultConfig ==
    /\ awsLoad.pc = "exchange"
    /\ sts[1].pc = "done"
    /\ awsLoad' =
         IF sts[1].err # ""
         THEN [awsLoad EXCEPT !.pc = "done", !.provider = "default"]
         ELSE [awsLoad EXCEPT !.pc = "done", !.provider = "static", !.creds = sts[1].creds]
    /\ UNCHANGED <<clock, codecVars, stsVars, flowVars, oidcVars, principal, netcall,
                   repoCalls, lockVars>>

\* No AWS configuration asked for.
AWSIdle == awsLoad = NoAWSLoad

(***************************************************************************)
(* HandleCallback(code, state), one action per step that leaves the        *)
(* process: the state repository, provider discovery, the token endpoint,  *)
(* the verifier.                                                           *)
(***************************************************************************)
\* A step that failed makes HandleCallback return; no later step is taken.
Proceed_Regardless(ok, next) == next

Proceed(ok, next) == IF ok THEN next ELSE "respond"

Step(name, ok) == Append(steps, [step |-> name, ok |-> ok])

ValidateState ==
    /\ hpc = "validate"
    /\ LET r == RepoValidate(stateRepo, oauthStates, now, req.state) IN
       /\ steps' = Step("validate", r.ok)
       /\ oauthStates' = IF stateRepo = "sqlite"
                         THEN SQLiteRemove(oauthStates, now, req.state)
                         ELSE oauthStates
       /\ hc' = IF r.ok
                THEN [hc EXCEPT !.locals.redirectURL = r.url]
                ELSE [hc EXCEPT !.result =
                         Fail(hc.locals, "invalid or expired state parameter")]
       /\ hpc' = Proceed(r.ok, "config")
    /\ UNCHANGED <<clock, codecVars, stsVars, oidcVars, callVars, stateRepo, oidcReady, nonces, flow, req,
                   resp, cookie, verified>>

\* createOAuth2Config: initOIDCProviderFromOAuthConfig fetches the discovery
\* document unless the provider is already set.
CreateConfig(discovered) ==
    /\ hpc = "config"
    /\ LET ok == oidcReady \/ discovered IN
       /\ steps' = Step("config", ok)
       /\ oidcReady' = ok
       /\ hc' = IF ok THEN hc
                ELSE [hc EXCEPT !.result =
                         Fail(hc.locals, "failed to initialize OAuth2 config")]
       /\ hpc' = Proceed(ok, "exchange")
    /\ UNCHANGED <<clock, codecVars, stsVars, oidcVars, callVars, stateRepo, oauthStates, nonces, flow, req,
                   resp, cookie, verified>>

\* What the token endpoint answers: nothing (the request fails on the
\* network), an error, a token response without id_token, or one with an
\* identity token.
ExchangeOutcomes ==
    {[kind |-> k, id_token |-> EmptyToken] : k \in {"unreachable", "error", "no-id-token"}}
    \cup {[kind |-> "token", id_token |-> t] :
             t \in {EmptyToken, AdminToken, OutsideToken, ForgedToken}}

\* oauth2Config.Exchange(code), then token.Extra("id_token").
ExchangeCode(o) ==
    /\ hpc = "exchange"
    /\ steps' = Step("exchange", o.kind \notin {"unreachable", "error"})
    /\ hc' = CASE o.kind = "unreachable" ->
                    [hc EXCEPT !.result =
                        Fail(hc.locals, "failed to exchange code for token: dial tcp")]
               [] o.kind = "error" ->
                    [hc EXCEPT !.result =
                        Fail(hc.locals, "failed to exchange code for token")]
               [] o.kind = "no-id-token" ->
                    [hc EXCEPT !.result = Fail(hc.locals, "no ID token in response")]
               [] OTHER -> [hc EXCEPT !.locals.rawIDToken = o.id_token]
    /\ hpc' = Proceed(o.kind = "token", "verify")
    /\ UNCHANGED <<clock, codecVars, stsVars, oidcVars, callVars, stateRepo, oauthStates, oidcReady, nonces,
                   flow, req, resp, cookie, verified>>

\* ValidateOIDCTokenFromOAuthConfig(rawIDToken): the verifier checks
\* signature, issuer and audience; the role is the default role.
ValidateOIDCTokenFromOAuthConfig(token, ready) ==
    IF token.raw = "" THEN [err |-> TRUE, claims |-> NilClaims]
    ELSE IF ~ready THEN [err |-> TRUE, claims |-> NilClaims]
    ELSE IF ~(token.jwt /\ token.genuine) THEN [err |-> TRUE, claims |-> NilClaims]
    ELSE [err |-> FALSE, claims |-> [Email |-> token.claims.Email, Role |-> "user"]]

\* keys: the provider's signing keys can be fetched, should the verifier
\* need them.
VerifyIDToken(discovered, keys) ==
    /\ hpc = "verify"
    /\ LET token == hc.locals.rawIDToken
           ready == oidcReady \/ discovered
           v == ValidateOIDCTokenFromOAuthConfig(token, ready /\ keys)
       IN
       /\ steps' = Step("verify", ~v.err)
       /\ oidcReady' = IF token.raw = "" THEN oidcReady ELSE ready
       /\ verified' = IF v.err THEN verified ELSE verified \cup {token.raw}
       /\ hc' = IF v.err /\ token.raw # "" /\ ready /\ ~keys
                THEN [hc EXCEPT !.result =
                         Fail(hc.locals, "failed to validate ID token: fetching keys")]
                ELSE IF v.err
                THEN [hc EXCEPT !.result = Fail(hc.locals, "failed to validate ID token")]
                ELSE [hc EXCEPT !.result =
                         [claims |-> v.claims, rawIDToken |-> token.raw,
                          redirectURL |-> hc.locals.redirectURL, err |-> ""]]
       /\ hpc' = "respond"
    /\ UNCHANGED <<clock, codecVars, stsVars, oidcVars, callVars, stateRepo, oauthStates, nonces, flow, req,
                   resp, cookie>>

\* The HandleCallback errors that come from a network failure: of provider
\* discovery, of the code exchange, of the key fetch.
UpstreamErrors ==
    {"failed to initialize OAuth2 config",
     "failed to exchange code for token: dial tcp",
     "failed to validate ID token: fetching keys"}

\* The identity token a raw token string spells.
TokenOf(raw) == CHOOSE t \in IDTokens : t.raw = raw

\* CallbackHandler once HandleCallback has returned.  The browser of the
\* flow keeps the cookie and follows the redirect it is answered with.  The
\* response notes (upstream) whether the error the handler logged before
\* answering came from the network.
Respond(discovered) ==
    /\ hpc = "respond"
    /\ hpc' = "idle"
    /\ LET retryAttempts == getRetryAttempts(req)
           originalRedirectURL == IF req.redirect_url = "" THEN Dashboard
                                  ELSE req.redirect_url
           g == GenerateAuthURL(originalRedirectURL, discovered)
           authURL == [g.url EXCEPT !.oauth_retry = Itoa(retryAttempts + 1)]
           mine == req.src = "idp"
       IN
       IF hc.result.err # ""
       THEN IF hasExceededRetryLimit(retryAttempts)
            THEN /\ resp' = [ErrorResponse(400,
                                "Authentication failed: too many retry attempts")
                              EXCEPT !.upstream = hc.result.err \in UpstreamErrors]
                 /\ flow' = IF mine THEN [flow EXCEPT !.status = "failed"] ELSE flow
                 /\ UNCHANGED <<oauthStates, oidcReady, nonces, cookie>>
            ELSE /\ GenerateAuthURLEffects(originalRedirectURL, discovered)
                 /\ resp' = IF g.err
                            THEN [ErrorResponse(500, "Failed to restart authentication")
                                  EXCEPT !.upstream = hc.result.err \in UpstreamErrors]
                            ELSE [NoResp EXCEPT !.status = 302, !.kind = "retry",
                                                !.url = authURL,
                                                !.upstream = hc.result.err \in UpstreamErrors]
                 /\ flow' = IF ~mine THEN flow
                            ELSE IF g.err THEN [flow EXCEPT !.status = "failed"]
                            ELSE [flow EXCEPT !.url = authURL, !.redirects = @ + 1]
                 /\ UNCHANGED cookie
       ELSE /\ resp' = [NoResp EXCEPT
                           !.status = 302, !.kind = "success",
                           !.set_cookie = hc.result.rawIDToken,
                           !.location = IF hc.result.redirectURL = "" THEN Dashboard
                                        ELSE hc.result.redirectURL]
            /\ cookie' = IF mine THEN TokenOf(hc.result.rawIDToken) ELSE cookie
            /\ flow' = IF mine THEN [flow EXCEPT !.status = "success"] ELSE flow
            /\ UNCHANGED <<oauthStates, oidcReady, nonces>>
    /\ req' = NoReq
    /\ hc' = NoCall
    /\ steps' = <<>>
    /\ UNCHANGED <<clock, codecVars, stsVars, oidcVars, callVars, stateRepo, verified>>

\* A request that carries the jwt cookie asks for AWS credentials:
\* WithUserAWSCredentials, then loadAWSConfig calls GetSTSCredentials.
ProtectedRequest(p) ==
    /\ cookie.raw # ""
    /\ GetSTSCredentials(p, cookie)

\* Time passes while the browser is at the identity provider.
MaxFlowTicks == 1

FlowTick(d) ==
    /\ ticks < MaxFlowTicks
    /\ hpc = "idle"
    /\ flow.status = "awaiting"
    /\ Tick(d)

FlowTickSteps == {301}
FlowRedirects == {"", "https://app/dash"}

\* No login under way.
FlowIdle ==
    /\ stateRepo = "encrypted"
    /\ oauthStates = {}
    /\ oidcReady = FALSE
    /\ nonces = 0
    /\ flow = NoFlow
    /\ req = NoReq
    /\ hpc = "idle"
    /\ hc = NoCall
    /\ steps = <<>>
    /\ resp = NoResp
    /\ cookie = EmptyToken
    /\ verified = {}
(***************************************************************************)
(* sts_cache.go statement by statement.  stsCacheMutex is a sync.RWMutex:  *)
(* Lock first shuts out new readers and other writers, then waits for the *)
(* readers that hold the lock to leave.  The map assignment is two steps,  *)
(* the slot made and the entry put into it, as a goroutine reading the map *)
(* outside the lock could find it.                                         *)
(***************************************************************************)
MaxCacheOps == 3
CacheGoroutines == 1..MaxCacheOps

CacheKeys == {hashToken(AdminToken.raw), hashToken(PlainToken.raw)}

\* The map slot of a key whose entry has not been put into it yet.
HalfStored == [creds |-> NoCreds, expiresAt |-> 0]

NoCacheOp == [pc |-> "idle", op |-> "", key |-> hashToken(""), creds |-> NoCreds,
              seen |-> "", result |-> NoCreds]

FreeMutex == [writer |-> 0, readers |-> {}]

\* getCachedCredentials(tokenHash) is called.  Goroutines are numbered in
\* the order of their calls.
BeginGet(g, tokenHash) ==
    /\ cacheOps[g].pc = "idle"
    /\ \A f \in 1..(g - 1) : cacheOps[f].pc # "idle"
    /\ cacheOps' = [cacheOps EXCEPT ![g] =
         [NoCacheOp EXCEPT !.pc = "rlock", !.op = "get", !.key = tokenHash]]
    /\ UNCHANGED <<clock, codecVars, stsVars, flowVars, oidcVars, principal, netcall, awsLoad,
                   repoCalls, stsCacheMutex>>

\* setCachedCredentials(tokenHash, creds) is called.
BeginSet(g, tokenHash, lifetime) ==
    /\ cacheOps[g].pc = "idle"
    /\ \A f \in 1..(g - 1) : cacheOps[f].pc # "idle"
    /\ cacheOps' = [cacheOps EXCEPT ![g] =
         [NoCacheOp EXCEPT !.pc = "lock", !.op = "set", !.key = tokenHash,
                           !.creds = [AccessKeyID |-> g, Expiration |-> now + lifetime]]]
    /\ UNCHANGED <<clock, codecVars, stsVars, flowVars, oidcVars, principal, netcall, awsLoad,
                   repoCalls, stsCacheMutex>>

\* clearSTSCache() is called.
BeginClear(g) ==
    /\ cacheOps[g].pc = "idle"
    /\ \A f \in 1..(g - 1) : cacheOps[f].pc # "idle"
    /\ cacheOps' = [cacheOps EXCEPT ![g] = [NoCacheOp EXCEPT !.pc = "lock", !.op = "clear"]]
    /\ UNCHANGED <<clock, codecVars, stsVars, flowVars, oidcVars, principal, netcall, awsLoad,
                   repoCalls, stsCacheMutex>>

\* A read lock taken whether or not a writer has the mutex.
RLock_Unguarded(g) ==
    /\ cacheOps[g].pc = "rlock"
    /\ stsCacheMutex' = [stsCacheMutex EXCEPT !.readers = @ \cup {g}]
    /\ cacheOps' = [cacheOps EXCEPT ![g] = [@ EXCEPT !.pc = "read"]]
    /\ UNCHANGED <<clock, codecVars, stsVars, flowVars, oidcVars, principal, netcall, awsLoad,
                   repoCalls>>

\* stsCacheMutex.RLock(): waits while a writer has, or is waiting for, the
\* mutex; other readers are no obstacle.
RLock(g) ==
    /\ cacheOps[g].pc = "rlock"
    /\ stsCacheMutex.writer = 0
    /\ stsCacheMutex' = [stsCacheMutex EXCEPT !.readers = @ \cup {g}]
    /\ cacheOps' = [cacheOps EXCEPT ![g] = [@ EXCEPT !.pc = "read"]]
    /\ UNCHANGED <<clock, codecVars, stsVars, flowVars, oidcVars, principal, netcall, awsLoad,
                   repoCalls>>

\* cached, exists := stsCache[tokenHash], the freshness test and the result.
\* Reading a slot without its entry dereferences nil.
MapLookup(g) ==
    /\ cacheOps[g].pc = "read"
    /\ LET h == cacheOps[g].key
           seen == IF h \notin DOMAIN stsCache THEN "absent"
                   ELSE IF stsCache[h] = HalfStored THEN "half"
                   ELSE "entry"
       IN  cacheOps' = [cacheOps EXCEPT ![g] =
             [@ EXCEPT !.pc = "runlock", !.seen = seen,
                       !.result = IF seen = "entry"
                                  THEN getCachedCredentials(stsCache, now, h)
                                  ELSE NoCreds]]
    /\ UNCHANGED <<clock, codecVars, stsVars, flowVars, oidcVars, principal, netcall, awsLoad,
                   repoCalls, stsCacheMutex>>

\* The deferred stsCacheMutex.RUnlock(), and the return.
RUnlock(g) ==
    /\ cacheOps[g].pc = "runlock"
    /\ stsCacheMutex' = [stsCacheMutex EXCEPT !.readers = @ \ {g}]
    /\ cacheOps' = [cacheOps EXCEPT ![g] = [@ EXCEPT !.pc = "done"]]
    /\ UNCHANGED <<clock, codecVars, stsVars, flowVars, oidcVars, principal, netcall, awsLoad,
                   repoCalls>>

\* stsCacheMutex.Lock(), first half: the writer shuts out other writers and
\* the readers to come.
Lock(g) ==
    /\ cacheOps[g].pc = "lock"
    /\ stsCacheMutex.writer = 0
    /\ stsCacheMutex' = [stsCacheMutex EXCEPT !.writer = g]
    /\ cacheOps' = [cacheOps EXCEPT ![g] = [@ EXCEPT !.pc = "drain"]]
    /\ UNCHANGED <<clock, codecVars, stsVars, flowVars, oidcVars, principal, netcall, awsLoad,
                   repoCalls>>

\* stsCacheMutex.Lock(), second half: the readers that held the lock have
\* left.
LockAcquired(g) ==
    /\ cacheOps[g].pc = "drain"
    /\ stsCacheMutex.readers = {}
    /\ cacheOps' = [cacheOps EXCEPT ![g] =
         [@ EXCEPT !.pc = IF cacheOps[g].op = "set" THEN "insert" ELSE "make"]]
    /\ UNCHANGED <<clock, codecVars, stsVars, flowVars, oidcVars, principal, netcall, awsLoad,
                   repoCalls, stsCacheMutex>>

\* stsCache[tokenHash] = ..., the slot.
MapInsert(g) ==
    /\ cacheOps[g].pc = "insert"
    /\ stsCache' = [h \in DOMAIN stsCache \cup {cacheOps[g].key} |->
                       IF h = cacheOps[g].key THEN HalfStored ELSE stsCache[h]]
    /\ cacheOps' = [cacheOps EXCEPT ![g] = [@ EXCEPT !.pc = "assign"]]
    /\ UNCHANGED <<clock, codecVars, flowVars, oidcVars, principal, netcall, awsLoad, repoCalls,
                   oauthConfig, sts, stsCalls, stsCacheMutex>>

\* stsCache[tokenHash] = &cachedCredentials{creds, creds.Expiration}, the entry.
MapAssign(g) ==
    /\ cacheOps[g].pc = "assign"
    /\ stsCache' = setCachedCredentials(stsCache, cacheOps[g].key, cacheOps[g].creds)
    /\ cacheOps' = [cacheOps EXCEPT ![g] = [@ EXCEPT !.pc = "unlock"]]
    /\ UNCHANGED <<clock, codecVars, flowVars, oidcVars, principal, netcall, awsLoad, repoCalls,
                   oauthConfig, sts, stsCalls, stsCacheMutex>>

\* stsCache = make(map[string]*cachedCredentials)
MakeMap(g) ==
    /\ cacheOps[g].pc = "make"
    /\ stsCache' = <<>>
    /\ cacheOps' = [cacheOps EXCEPT ![g] = [@ EXCEPT !.pc = "unlock"]]
    /\ UNCHANGED <<clock, codecVars, flowVars, oidcVars, principal, netcall, awsLoad, repoCalls,
                   oauthConfig, sts, stsCalls, stsCacheMutex>>

\* The deferred stsCacheMutex.Unlock(), and the return.
Unlock(g) ==
    /\ cacheOps[g].pc = "unlock"
    /\ stsCacheMutex' = [stsCacheMutex EXCEPT !.writer = 0]
    /\ cacheOps' = [cacheOps EXCEPT ![g] = [@ EXCEPT !.pc = "done"]]
    /\ UNCHANGED <<clock, codecVars, stsVars, flowVars, oidcVars, principal, netcall, awsLoad,
                   repoCalls>>

\* No call into sts_cache.go under way.
CacheIdle ==
    /\ stsCacheMutex = FreeMutex
    /\ cacheOps = [g \in CacheGoroutines |-> NoCacheOp]
(***************************************************************************)
(* oidc.go under concurrent callers.  Request handlers run as goroutines;  *)
(* each makes one call: ValidateOIDCTokenFromOAuthConfig (the middleware,  *)
(* HandleCallback) or createOAuth2Config, which goes straight to           *)
(* initOIDCProviderFromOAuthConfig.  The discovery request is made while   *)
(* providerMutex is held.                                                  *)
(***************************************************************************)
MaxCallers == 3
Callers == 1..MaxCallers

\* The OAuthConfig fields oidc.go reads: complete, without ClientID, without
\* what the issuer URL is made of.
CompleteConfig == [UserPoolID |-> "pool", Region |-> "eu-west-1", ClientID |-> "client"]
ProviderConfigs ==
    {CompleteConfig,
     [CompleteConfig EXCEPT !.ClientID = ""],
     [CompleteConfig EXCEPT !.UserPoolID = "", !.Region = ""]}

VerifierTokens == {EmptyToken, AdminToken, ForgedToken}

NoCaller == [pc |-> "idle", kind |-> "", token |-> EmptyToken, config |-> CompleteConfig,
             err |-> ""]

\* return nil, err
OIDCFail(call, msg) == [call EXCEPT !.pc = "done", !.err = msg]

\* What a caller does once initOIDCProviderFromOAuthConfig has returned the
\* provider: the verifier goes on to Verify, createOAuth2Config returns.
AfterInit(call) ==
    IF call.kind = "validate" THEN [call EXCEPT !.pc = "verify"]
    ELSE [call EXCEPT !.pc = "done"]

\* ValidateOIDCTokenFromOAuthConfig up to the call of the initialiser.  The
\* read of oidcVerifier is made without the mutex: it may miss a verifier
\* another goroutine has set (seesNil).
BeginValidate(p, tokenString, config, seesNil) ==
    /\ validating[p].pc = "idle"
    /\ \A q \in 1..(p - 1) : validating[q].pc # "idle"
    /\ ~oidcVerifier => seesNil
    /\ LET call == [NoCaller EXCEPT !.kind = "validate", !.token = tokenString,
                                    !.config = config]
       IN  validating' = [validating EXCEPT ![p] =
             IF tokenString.raw = "" THEN OIDCFail(call, "empty token")
             ELSE IF seesNil THEN [call EXCEPT !.pc = "lock"]
             ELSE [call EXCEPT !.pc = "verify"]]
    /\ UNCHANGED <<clock, codecVars, stsVars, flowVars, callVars, oidcProvider, oidcVerifier,
                   providerMutex, discoveries>>

\* createOAuth2Config up to the call of the initialiser.
BeginCreateConfig(p, config) ==
    /\ validating[p].pc = "idle"
    /\ \A q \in 1..(p - 1) : validating[q].pc # "idle"
    /\ LET call == [NoCaller EXCEPT !.kind = "config", !.config = config]
       IN  validating' = [validating EXCEPT ![p] =
             IF config.ClientID = ""
             THEN OIDCFail(call, "ClientID is required in OAuthConfig")
             ELSE [call EXCEPT !.pc = "lock"]]
    /\ UNCHANGED <<clock, codecVars, stsVars, flowVars, callVars, oidcProvider, oidcVerifier,
                   providerMutex, discoveries>>

\* The initialiser without providerMutex.Lock().
initOIDCProviderFromOAuthConfig_NoLock(p) ==
    /\ validating[p].pc = "lock"
    /\ LET call == validating[p]
           fetch == /\ ~oidcProvider
                    /\ call.config.UserPoolID # ""
                    /\ call.config.Region # ""
       IN  /\ validating' = [validating EXCEPT ![p] =
                 IF oidcProvider THEN AfterInit(call)
                 ELSE IF call.config.UserPoolID = ""
                      THEN OIDCFail(call, "userPoolID is required in OAuthConfig")
                 ELSE IF call.config.Region = ""
                      THEN OIDCFail(call, "region is required in OAuthConfig")
                 ELSE [call EXCEPT !.pc = "fetch"]]
           /\ providerMutex' = IF fetch THEN p ELSE providerMutex
           /\ discoveries' = IF fetch
                             THEN Append(discoveries, [by |-> p, result |-> "pending"])
                             ELSE discoveries
    /\ UNCHANGED <<clock, codecVars, stsVars, flowVars, callVars, oidcProvider, oidcVerifier>>

\* initOIDCProviderFromOAuthConfig from providerMutex.Lock() to the request
\* oidc.NewProvider sends: the caller returns at once if the provider is
\* set or the configuration lacks a field, and else keeps the mutex while
\* the discovery request is under way.
initOIDCProviderFromOAuthConfig(p) ==
    /\ validating[p].pc = "lock"
    /\ providerMutex = 0
    /\ LET call == validating[p]
           fetch == /\ ~oidcProvider
                    /\ call.config.UserPoolID # ""
                    /\ call.config.Region # ""
       IN  /\ validating' = [validating EXCEPT ![p] =
                 IF oidcProvider THEN AfterInit(call)
                 ELSE IF call.config.UserPoolID = ""
                      THEN OIDCFail(call, "userPoolID is required in OAuthConfig")
                 ELSE IF call.config.Region = ""
                      THEN OIDCFail(call, "region is required in OAuthConfig")
                 ELSE [call EXCEPT !.pc = "fetch"]]
           /\ providerMutex' = IF fetch THEN p ELSE providerMutex
           /\ discoveries' = IF fetch
                             THEN Append(discoveries, [by |-> p, result |-> "pending"])
                             ELSE discoveries
    /\ UNCHANGED <<clock, codecVars, stsVars, flowVars, callVars, oidcProvider, oidcVerifier>>

\* oidc.NewProvider with the outcome of a failed fetch kept: the provider
\* global is set whether or not the discovery document came.
NewProvider_KeepFailed(p, answered) ==
    /\ validating[p].pc = "fetch"
    /\ discoveries' = [i \in 1..Len(discoveries) |->
                          IF discoveries[i].by = p
                          THEN [by |-> p, result |-> IF answered THEN "ok" ELSE "failed"]
                          ELSE discoveries[i]]
    /\ oidcProvider' = TRUE
    /\ oidcVerifier' = (oidcVerifier \/ (answered /\ validating[p].config.ClientID # ""))
    /\ validating' = [validating EXCEPT ![p] =
         IF ~answered THEN OIDCFail(@, "failed to create OIDC provider")
         ELSE IF validating[p].config.ClientID = ""
              THEN OIDCFail(@, "clientID is required in OAuthConfig")
         ELSE AfterInit(@)]
    /\ providerMutex' = 0
    /\ UNCHANGED <<clock, codecVars, stsVars, flowVars, callVars>>

\* oidc.NewProvider returns (answered: the discovery document came within
\* the ten seconds), the verifier is made, the deferred Unlock runs.
NewProvider(p, answered) ==
    /\ validating[p].pc = "fetch"
    /\ discoveries' = [i \in 1..Len(discoveries) |->
                          IF discoveries[i].by = p
                          THEN [by |-> p, result |-> IF answered THEN "ok" ELSE "failed"]
                          ELSE discoveries[i]]
    /\ oidcProvider' = answered
    /\ oidcVerifier' = (oidcVerifier \/ (answered /\ validating[p].config.ClientID # ""))
    /\ validating' = [validating EXCEPT ![p] =
         IF ~answered THEN OIDCFail(@, "failed to create OIDC provider")
         ELSE IF validating[p].config.ClientID = ""
              THEN OIDCFail(@, "clientID is required in OAuthConfig")
         ELSE AfterInit(@)]
    /\ providerMutex' = 0
    /\ UNCHANGED <<clock, codecVars, stsVars, flowVars, callVars>>

\* oidcVerifier.Verify(ctx, tokenString) and the conversion of the claims.
\* Verify on a nil verifier dereferences nil: the goroutine panics.
Verify(p) ==
    /\ validating[p].pc = "verify"
    /\ validating' = [validating EXCEPT ![p] =
         IF ~oidcVerifier THEN [@ EXCEPT !.pc = "panic"]
         ELSE IF ValidateOIDCTokenFromOAuthConfig(validating[p].token, TRUE).err
              THEN OIDCFail(@, "failed to verify ID token")
         ELSE [@ EXCEPT !.pc = "done"]]
    /\ UNCHANGED <<clock, codecVars, stsVars, flowVars, callVars, oidcProvider, oidcVerifier,
                   providerMutex, discoveries>>

\* No caller yet: the globals of oidc.go are nil.
OIDCIdle ==
    /\ oidcProvider = FALSE
    /\ oidcVerifier = FALSE
    /\ providerMutex = 0
    /\ discoveries = <<>>
    /\ validating = [p \in Callers |-> NoCaller]
(***************************************************************************)
(* SQLiteStateRepository used directly, by concurrent goroutines.          *)
(* ValidateAndRemoveState is two statements on a connection of its own,    *)
(* outside any transaction: the SELECT, then the DELETE.                   *)
(***************************************************************************)
MaxValidators == 2
Validators == 1..MaxValidators

RepoStates == {RawNonce("n1"), RawNonce("n2")}

\* A call holds the state string it was given by its name (raw).
NoValidation == [pc |-> "idle", state |-> "", url |-> "", ok |-> FALSE]

\* StoreState(state, redirectURL, now + 5 minutes); the state column is
\* UNIQUE.  States are stored before the callbacks that carry them arrive.
RepoStore(state, redirectURL) ==
    /\ \A p \in Validators : repoCalls[p].pc = "idle"
    /\ \A row \in oauthStates : row.state # state
    /\ oauthStates' = StoreState("sqlite", oauthStates, state, redirectURL, now + StateTTL)
    /\ UNCHANGED <<clock, codecVars, stsVars, oidcVars, lockVars, awsLoad, principal, netcall, repoCalls,
                   stateRepo, oidcReady, nonces, flow, req, hpc, hc, steps, resp,
                   cookie, verified>>

\* The SELECT of ValidateAndRemoveState(state): no row, or a database error,
\* returns ("", false).  Goroutines are numbered in the order of their calls.
SelectState(p, state, dbOK) ==
    /\ repoCalls[p].pc = "idle"
    /\ \A q \in 1..(p - 1) : repoCalls[q].pc # "idle"
    /\ oauthStates # {}
    /\ LET r == SQLiteValidate(oauthStates, now, state)
           call == [NoValidation EXCEPT !.state = state.raw]
       IN  repoCalls' = [repoCalls EXCEPT ![p] =
             IF dbOK /\ r.ok THEN [call EXCEPT !.pc = "delete", !.url = r.url]
             ELSE [call EXCEPT !.pc = "done"]]
    /\ UNCHANGED <<clock, codecVars, stsVars, flowVars, oidcVars, lockVars, awsLoad, principal, netcall>>

\* The DELETE, and the return: a DELETE that fails is logged and the state
\* is still reported valid.
DeleteState(p, dbOK) ==
    /\ repoCalls[p].pc = "delete"
    /\ oauthStates' = IF dbOK
                      THEN {row \in oauthStates : row.state.raw # repoCalls[p].state}
                      ELSE oauthStates
    /\ repoCalls' = [repoCalls EXCEPT ![p] = [@ EXCEPT !.pc = "done", !.ok = TRUE]]
    /\ UNCHANGED <<clock, codecVars, stsVars, oidcVars, lockVars, awsLoad, principal, netcall,
                   stateRepo, oidcReady, nonces, flow, req, hpc, hc, steps, resp,
                   cookie, verified>>

RepoTickSteps == {1, 299}

\* Time passes once a state is stored.
RepoTick(d) ==
    /\ oauthStates # {}
    /\ Tick(d)

\* No repository call made.
RepoIdle == repoCalls = [p \in Validators |-> NoValidation]

(***************************************************************************)
(* From verified identity to principal (the Claims struct).  Two          *)
(* conversions: the claims of a verified ID token                         *)
(* (ValidateOIDCTokenFromOAuthConfig) and                                  *)
(* the attributes of the Cognito user found for an API token               *)
(* (FindUserClaimsByToken, cognitoUserToClaims).  An attribute or claim    *)
(* that is absent reads as the empty string, as in the code.               *)
(***************************************************************************)
Nil == "<nil>"

\* OAuthConfig.CalculateDefaultRole: not set, the function of
\* examples/basic_usage.go, and one that names a role for administrators only.
DefaultRoleFunctions == {Nil, "adminOrUser", "adminOnly"}

CalculateDefaultRole(f, oidcClaims) ==
    IF \E i \in 1..Len(oidcClaims.Groups) : oidcClaims.Groups[i] = "admin"
    THEN "admin"
    ELSE IF f = "adminOrUser" THEN "user" ELSE ""

\* The claims of an identity token (OIDCClaims): email, cognito:username,
\* custom:userRole, cognito:groups.
OIDCClaimSets ==
    [Email : {"", "a@x.io"}, Username : {"", "alice"},
     UserRole : {"", "admin"}, Groups : {<<>>, <<"admin">>}]

\* A user of the pool (types.UserType): Username and the attributes email,
\* custom:role, custom:userRole.
CognitoUsers ==
    [Username : {Nil, "alice"}, email : {"", "a@x.io"},
     role : {"", "FieldOfficer"}, userRole : {"", "admin"}]

NoPrincipalClaims == [Email |-> "", Username |-> "", Role |-> "", Provider |-> ""]

\* return nil, err
NoUser(msg) == [err |-> msg, claims |-> NoPrincipalClaims]

\* ValidateOIDCTokenFromOAuthConfig after Verify: idToken.Claims(&oidcClaims),
\* the default role, the conversion.
ClaimsFromIDToken(genuine, oidcClaims, f) ==
    IF ~genuine THEN NoUser("failed to verify ID token")
    ELSE LET defaultRole == IF f # Nil THEN CalculateDefaultRole(f, oidcClaims)
                            ELSE "user"
         IN  [err |-> "",
              claims |-> [Email |-> oidcClaims.Email,
                          Username |-> oidcClaims.Username,
                          Role |-> defaultRole,
                          Provider |-> "cognito"]]

cognitoUserToClaims(cognitoUser, f) ==
    LET email == cognitoUser.email
        username == IF cognitoUser.Username # Nil THEN cognitoUser.Username ELSE email
        promoted == IF cognitoUser.role = "" /\ cognitoUser.userRole # ""
                    THEN cognitoUser.userRole ELSE cognitoUser.role
        handed == [Email |-> email, Username |-> username, UserRole |-> "",
                   Groups |-> <<>>]
        defaultRole == IF f # Nil THEN CalculateDefaultRole(f, handed) ELSE "user"
    IN  IF cognitoUser.Username = Nil /\ email = ""
        THEN NoUser("user has no username or email")
        ELSE IF email = "" THEN NoUser("user has no email attribute")
        ELSE [err |-> "",
              claims |-> [Email |-> email,
                          Username |-> username,
                          Role |-> IF promoted = "" THEN defaultRole ELSE promoted,
                          Provider |-> "token"]]

\* What a conversion was given: the e-mail, the explicit role claim, the
\* claims handed to the default-role function, and that function.
NoPrincipal ==
    [via |-> "", email |-> "", explicit |-> "", handed |-> <<>>, fn |-> Nil,
     genuine |-> FALSE, err |-> "", claims |-> NoPrincipalClaims]

\* The middleware or HandleCallback verifies an ID token.
ValidateIDToken(genuine, oidcClaims, f) ==
    /\ principal' =
         LET r == ClaimsFromIDToken(genuine, oidcClaims, f)
         IN  [via |-> "id-token", email |-> oidcClaims.Email,
              explicit |-> oidcClaims.UserRole, handed |-> oidcClaims, fn |-> f,
              genuine |-> genuine, err |-> r.err, claims |-> r.claims]
    /\ UNCHANGED <<clock, codecVars, stsVars, flowVars, oidcVars, lockVars, awsLoad, netcall, repoCalls>>

\* ListUsers finds nobody, or more than one user, with the API token.
ListUsersFails(msg, f) ==
    /\ principal' = [NoPrincipal EXCEPT !.via = "api-token", !.fn = f, !.err = msg]
    /\ UNCHANGED <<clock, codecVars, stsVars, flowVars, oidcVars, lockVars, awsLoad, netcall, repoCalls>>

\* ListUsers finds one user with the API token.
FindUserClaimsByToken(cognitoUser, f) ==
    /\ principal' =
         LET r == cognitoUserToClaims(cognitoUser, f)
         IN  [via |-> "api-token", email |-> cognitoUser.email,
              explicit |-> IF cognitoUser.role # "" THEN cognitoUser.role
                           ELSE cognitoUser.userRole,
              handed |-> [Email |-> cognitoUser.email,
                          Username |-> IF cognitoUser.Username # Nil
                                       THEN cognitoUser.Username
                                       ELSE cognitoUser.email,
                          UserRole |-> "", Groups |-> <<>>],
              fn |-> f, genuine |-> TRUE, err |-> r.err, claims |-> r.claims]
    /\ UNCHANGED <<clock, codecVars, stsVars, flowVars, oidcVars, lockVars, awsLoad, netcall, repoCalls>>

\* No conversion made.
ClaimsIdle == principal = NoPrincipal

(***************************************************************************)
(* The network-bound calls and the context each is made with.  The caller  *)
(* (an HTTP request) has a context that it may cancel and that may carry a *)
(* deadline; a call returns the context's error once the context it was    *)
(* GIVEN is done.                                                          *)
(***************************************************************************)
discoveryTimeout == 10

NetworkCalls == {"exchange", "discovery", "federation"}

\* Seconds the caller allows for the request (0: no deadline).
CallerDeadlines == {0, 5}

NoNetCall == [kind |-> "", pc |-> "idle", at |-> 0, allowed |-> 0,
              cancelled |-> FALSE, ended |-> 0, err |-> ""]

\* The caller's context is done at time t.
CallerDone(call, t) ==
    \/ call.cancelled
    \/ call.allowed # 0 /\ t >= call.at + call.allowed

\* The context handed to the network call is done at time t:
\* oauth2Config.Exchange(context.Background(), code);
\* oidc.NewProvider(context.WithTimeout(context.Background(), 10 s), issuerURL);
\* stsClient.AssumeRoleWithWebIdentity(ctx, input).
ContextDone(call, t) ==
    CASE call.kind = "exchange" -> FALSE
      [] call.kind = "discovery" -> t >= call.at + discoveryTimeout
      [] OTHER -> CallerDone(call, t)

\* A request arrives and its handler reaches the network call.
BeginCall(kind, allowed) ==
    /\ netcall.pc = "idle"
    /\ ticks = 0
    /\ netcall' = [NoNetCall EXCEPT !.kind = kind, !.pc = "waiting", !.at = now,
                                    !.allowed = allowed]
    /\ UNCHANGED <<clock, codecVars, stsVars, flowVars, oidcVars, lockVars, awsLoad, principal, repoCalls>>

\* The caller cancels (the client goes away).
CancelCall ==
    /\ netcall.pc = "waiting"
    /\ ~netcall.cancelled
    /\ netcall' = [netcall EXCEPT !.cancelled = TRUE]
    /\ UNCHANGED <<clock, codecVars, stsVars, flowVars, oidcVars, lockVars, awsLoad, principal, repoCalls>>

\* The endpoint answers before the call's context is done.
EndpointAnswers(ok) ==
    /\ netcall.pc = "waiting"
    /\ ~ContextDone(netcall, now)
    /\ netcall' = [netcall EXCEPT !.pc = "done", !.ended = now,
                                  !.err = IF ok THEN "" ELSE "upstream: refused"]
    /\ UNCHANGED <<clock, codecVars, stsVars, flowVars, oidcVars, lockVars, awsLoad, principal, repoCalls>>

\* The call's context is done: the call returns the context's error, wrapped.
ContextEnds ==
    /\ netcall.pc = "waiting"
    /\ ContextDone(netcall, now)
    /\ netcall' = [netcall EXCEPT !.pc = "done", !.ended = now,
                                  !.err = IF netcall.kind = "federation" /\ netcall.cancelled
                                          THEN "upstream: context canceled"
                                          ELSE "upstream: context deadline exceeded"]
    /\ UNCHANGED <<clock, codecVars, stsVars, flowVars, oidcVars, lockVars, awsLoad, principal, repoCalls>>

CallTickSteps == {1, 4, 5}

\* Time passes while the call waits for the endpoint.
CallTick(d) ==
    /\ netcall.pc = "waiting"
    /\ Tick(d)

\* No network call under way.
NetIdle == netcall = NoNetCall

(***************************************************************************)
(* The codec on its own.                                                   *)
(***************************************************************************)
InitCodec ==
    /\ now = StartTime
    /\ ticks = 0
    /\ tok = NoTok
    /\ res = NoRes
    /\ STSIdle
    /\ FlowIdle
    /\ OIDCIdle
    /\ ClaimsIdle
    /\ NetIdle
    /\ RepoIdle
    /\ CacheIdle
    /\ AWSIdle

NextCodec ==
    \/ \E d \in TickSteps : Tick(d)
    \/ \E env \in KeyEnvs, iv \in 0..MaxIV, n \in Nonces, r \in RedirectURLs :
          Issue(env, iv, n, r)
    \/ \E env \in KeyEnvs, iv \in 0..MaxIV, off \in TimestampOffsets,
          n \in Nonces, r \in RedirectURLs :
          EncryptPayload(env, iv, off, n, r)
    \/ \E env \in KeyEnvs, iv \in 0..MaxIV : EncryptBytes(env, iv)
    \/ \E b \in 0..(MaskBits - 1) : FlipIV(b)
    \/ \E b \in 0..(MaskBits - 1) : FlipBody(b)
    \/ \E b \in 0..(MaskBits - 1) : FlipTag(b)
    \/ Respell
    \/ \E s \in ForeignStrings : Foreign(s)
    \/ \E env \in KeyEnvs : Validate(env)

SpecCodec == InitCodec /\ [][NextCodec]_vars

(***************************************************************************)
(* Instances of the repository under different secrets: one issues a       *)
(* state, any other validates it.                                          *)
(***************************************************************************)
InitKeys == InitCodec

NextKeys ==
    \/ \E d \in TickSteps : Tick(d)
    \/ \E env \in StateSecrets, iv \in 0..MaxIV, n \in Nonces, r \in RedirectURLs :
          Issue(env, iv, n, r)
    \/ \E env \in StateSecrets : Validate(env)

SpecKeys == InitKeys /\ [][NextKeys]_vars
(***************************************************************************)
(* The credential broker on its own: concurrent GetSTSCredentials calls.   *)
(***************************************************************************)
InitSTS ==
    /\ now = StartTime
    /\ ticks = 0
    /\ tok = NoTok
    /\ res = NoRes
    /\ oauthConfig \in Configs
    /\ stsCache = <<>>
    /\ sts = [p \in Procs |-> IdleCall]
    /\ stsCalls = <<>>
    /\ FlowIdle
    /\ OIDCIdle
    /\ ClaimsIdle
    /\ NetIdle
    /\ RepoIdle
    /\ CacheIdle
    /\ AWSIdle

NextSTS ==
    \/ \E d \in STSTickSteps : STSTick(d)
    \/ \E p \in Procs, t \in IDTokens : GetSTSCredentials(p, t)
    \/ \E p \in Procs, o \in FedOutcomes : AssumeRoleWithWebIdentity(p, o)
    \/ \E p \in Procs : StoreAndReturn(p)

SpecSTS == InitSTS /\ [][NextSTS]_vars
(***************************************************************************)
(* One AWS operation under a request's context.                            *)
(***************************************************************************)
InitAWS ==
    /\ now = StartTime
    /\ ticks = 0
    /\ tok = NoTok
    /\ res = NoRes
    /\ oauthConfig \in Configs \ {NilConfig}
    /\ stsCache = <<>>
    /\ sts = [p \in Procs |-> IdleCall]
    /\ stsCalls = <<>>
    /\ FlowIdle
    /\ OIDCIdle
    /\ ClaimsIdle
    /\ NetIdle
    /\ RepoIdle
    /\ CacheIdle
    /\ AWSIdle

NextAWS ==
    \/ \E r \in AWSRequests : WithUserAWSCredentials(r)
    \/ \E region \in Regions : loadAWSConfig(region)
    \/ ExchangeJWT
    \/ \E o \in FedOutcomes : AssumeRoleWithWebIdentity(1, o)
    \/ StoreAndReturn(1)
    \/ LoadDefaultConfig

SpecAWS == InitAWS /\ [][NextAWS]_vars
(***************************************************************************)
(* The pipeline: one browser logs in through the identity provider, is     *)
(* sent back to the callback, and uses the cookie it got.                  *)
(***************************************************************************)
FlowConfig == [nil |-> FALSE, STSRoleARN |-> "role/Default", STSSessionName |-> "app"]

Init ==
    /\ now = StartTime
    /\ ticks = 0
    /\ tok = NoTok
    /\ res = NoRes
    /\ oauthConfig = FlowConfig
    /\ stsCache = <<>>
    /\ sts = [p \in Procs |-> IdleCall]
    /\ stsCalls = <<>>
    /\ stateRepo \in {"encrypted", "sqlite"}
    /\ oauthStates = {}
    /\ oidcReady = FALSE
    /\ nonces = 0
    /\ flow = NoFlow
    /\ req = NoReq
    /\ hpc = "idle"
    /\ hc = NoCall
    /\ steps = <<>>
    /\ resp = NoResp
    /\ cookie = EmptyToken
    /\ verified = {}
    /\ OIDCIdle
    /\ ClaimsIdle
    /\ NetIdle
    /\ RepoIdle
    /\ CacheIdle
    /\ AWSIdle

Next ==
    \/ \E d \in FlowTickSteps : FlowTick(d)
    \/ \E r \in FlowRedirects, d \in BOOLEAN : LoginHandler(r, d)
    \/ \E c \in {"", "code"} : IdPRedirect(c)
    \/ \E q \in ClientQueries : DirectCallback(q.code, q.state, q.oauth_retry, q.redirect_url)
    \/ ValidateState
    \/ \E d \in BOOLEAN : CreateConfig(d)
    \/ \E o \in ExchangeOutcomes : ExchangeCode(o)
    \/ \E d, k \in BOOLEAN : VerifyIDToken(d, k)
    \/ \E d \in BOOLEAN : Respond(d)
    \/ ProtectedRequest(1)
    \/ \E o \in FedOutcomes : AssumeRoleWithWebIdentity(1, o)
    \/ StoreAndReturn(1)

Spec == Init /\ [][Next]_vars
(***************************************************************************)
(* The credential cache on its own: concurrent callers of sts_cache.go.    *)
(***************************************************************************)
InitCache ==
    /\ now = StartTime
    /\ ticks = 0
    /\ tok = NoTok
    /\ res = NoRes
    /\ STSIdle
    /\ FlowIdle
    /\ OIDCIdle
    /\ ClaimsIdle
    /\ NetIdle
    /\ RepoIdle
    /\ CacheIdle
    /\ AWSIdle

NextCache ==
    \/ \E g \in CacheGoroutines, h \in CacheKeys : BeginGet(g, h)
    \/ \E g \in CacheGoroutines, h \in CacheKeys, d \in FedLifetimes : BeginSet(g, h, d)
    \/ \E g \in CacheGoroutines : BeginClear(g)
    \/ \E g \in CacheGoroutines : RLock(g)
    \/ \E g \in CacheGoroutines : MapLookup(g)
    \/ \E g \in CacheGoroutines : RUnlock(g)
    \/ \E g \in CacheGoroutines : Lock(g)
    \/ \E g \in CacheGoroutines : LockAcquired(g)
    \/ \E g \in CacheGoroutines : MapInsert(g)
    \/ \E g \in CacheGoroutines : MapAssign(g)
    \/ \E g \in CacheGoroutines : MakeMap(g)
    \/ \E g \in CacheGoroutines : Unlock(g)

SpecCache == InitCache /\ [][NextCache]_vars
(***************************************************************************)
(* The verifier on its own: concurrent callers of oidc.go.                 *)
(***************************************************************************)
InitOIDC ==
    /\ now = StartTime
    /\ ticks = 0
    /\ tok = NoTok
    /\ res = NoRes
    /\ STSIdle
    /\ FlowIdle
    /\ OIDCIdle
    /\ ClaimsIdle
    /\ NetIdle
    /\ RepoIdle
    /\ CacheIdle
    /\ AWSIdle

NextOIDC ==
    \/ \E p \in Callers, t \in VerifierTokens, c \in ProviderConfigs, n \in BOOLEAN :
          BeginValidate(p, t, c, n)
    \/ \E p \in Callers, c \in ProviderConfigs : BeginCreateConfig(p, c)
    \/ \E p \in Callers : initOIDCProviderFromOAuthConfig(p)
    \/ \E p \in Callers, a \in BOOLEAN : NewProvider(p, a)
    \/ \E p \in Callers : Verify(p)

SpecOIDC == InitOIDC /\ [][NextOIDC]_vars
(***************************************************************************)
(* The storage-backed repository on its own.                               *)
(***************************************************************************)
InitRepo ==
    /\ now = StartTime
    /\ ticks = 0
    /\ tok = NoTok
    /\ res = NoRes
    /\ STSIdle
    /\ FlowIdle
    /\ OIDCIdle
    /\ ClaimsIdle
    /\ NetIdle
    /\ RepoIdle
    /\ CacheIdle
    /\ AWSIdle

NextRepo ==
    \/ \E s \in RepoStates, r \in FlowRedirects : RepoStore(s, r)
    \/ \E p \in Validators, s \in RepoStates, ok \in BOOLEAN : SelectState(p, s, ok)
    \/ \E p \in Validators, ok \in BOOLEAN : DeleteState(p, ok)
    \/ \E d \in RepoTickSteps : RepoTick(d)

SpecRepo == InitRepo /\ [][NextRepo]_vars

(***************************************************************************)
(* The conversions on their own: one verification at a time.               *)
(***************************************************************************)
InitClaims ==
    /\ now = StartTime
    /\ ticks = 0
    /\ tok = NoTok
    /\ res = NoRes
    /\ STSIdle
    /\ FlowIdle
    /\ OIDCIdle
    /\ ClaimsIdle
    /\ NetIdle
    /\ RepoIdle
    /\ CacheIdle
    /\ AWSIdle

NextClaims ==
    \/ \E g \in BOOLEAN, c \in OIDCClaimSets, f \in DefaultRoleFunctions :
          ValidateIDToken(g, c, f)
    \/ \E msg \in {"no user found with token", "multiple users found with same token"},
          f \in DefaultRoleFunctions : ListUsersFails(msg, f)
    \/ \E u \in CognitoUsers, f \in DefaultRoleFunctions : FindUserClaimsByToken(u, f)

SpecClaims == InitClaims /\ [][NextClaims]_vars

(***************************************************************************)
(* One network-bound call on its own, its caller and the clock.            *)
(***************************************************************************)
InitCalls ==
    /\ now = StartTime
    /\ ticks = 0
    /\ tok = NoTok
    /\ res = NoRes
    /\ STSIdle
    /\ FlowIdle
    /\ OIDCIdle
    /\ ClaimsIdle
    /\ NetIdle
    /\ RepoIdle
    /\ CacheIdle
    /\ AWSIdle

NextCalls ==
    \/ \E k \in NetworkCalls, a \in CallerDeadlines : BeginCall(k, a)
    \/ CancelCall
    \/ \E ok \in BOOLEAN : EndpointAnswers(ok)
    \/ ContextEnds
    \/ \E d \in CallTickSteps : CallTick(d)

SpecCalls == InitCalls /\ [][NextCalls]_vars

(***************************************************************************)
(* Properties of the codec.                                                *)
(***************************************************************************)
ValidUTF8(s) == s # BadUTF8

\* The validating repository holds the key the token was sealed under.
SameKey == getOrGenerateStateKey(res.by) = getOrGenerateStateKey(tok.by)

\* The call just made validated a state produced by GenerateEncryptedState
\* under the same key, no older than maxAge.
IssuedAndFresh ==
    /\ res.done
    /\ tok.origin = "issue"
    /\ SameKey
    /\ res.at - tok.ts <= maxAge

\* C6 as stated: for all (nonce, redirectTarget), Validate(Issue(nonce,
\* redirectTarget)) within the freshness window returns (redirectTarget, true).
C6_RoundTripEveryTarget ==
    IssuedAndFresh => (res.ok /\ res.url = tok.redirect)

\* C6 amended: for all nonces and every redirectTarget that is valid UTF-8,
\* Validate(Issue(nonce, redirectTarget)) within the freshness window returns
\* (redirectTarget, true); for any target it returns true.
C6_RoundTrip ==
    IssuedAndFresh =>
        /\ res.ok
        /\ ValidUTF8(tok.redirect) => res.url = tok.redirect

C6_Witness ==
    /\ IssuedAndFresh
    /\ res.at > tok.ts
    /\ tok.redirect = "https://app/dash"
    /\ res.ok
    /\ res.url = "https://app/dash"

\* C7 as stated: a state string that is not the string an encryption by the
\* repository produced is never accepted.
C7_OnlyProducedStringsValidate ==
    (res.done /\ ~Pristine(tok)) => (~res.ok /\ res.url = "")

\* C7 amended: flipping any bit of the bytes of a token (nonce, ciphertext or
\* tag), and any string that does not decode to bytes sealed under the
\* validator's key, makes Validate return ("", false); a string is accepted
\* only if it decodes to exactly the bytes of a token sealed under that key,
\* whatever its base64 spelling.
C7_TamperEvident ==
    /\ (res.done /\ tok.origin \in {"flip", "foreign"}) => (~res.ok /\ res.url = "")
    /\ (res.done /\ ~SameKey) => (~res.ok /\ res.url = "")
    /\ (res.done /\ res.ok) => tok.origin \in {"issue", "encrypt", "respell"}

C7_Witness ==
    /\ res.done
    /\ tok.origin = "flip"
    /\ tok.str.data.bmask # 0
    /\ SameKey
    /\ res.at - tok.ts <= maxAge
    /\ ~res.ok

\* The call just made validated an untampered token sealed under the
\* validator's key around the JSON of a payload.
Authentic ==
    /\ res.done
    /\ tok.origin \in {"issue", "encrypt"}
    /\ tok.str.data.pt.json
    /\ SameKey

\* C8: Validate rejects a state when now - issuedAt > 300 s and accepts it
\* otherwise on the age check (299 s old: true, 301 s old: false).
C8_ExpiryBoundary ==
    (Authentic /\ tok.ts <= res.at) => (res.ok <=> res.at - tok.ts <= 300)

C8_Witness ==
    /\ Authentic
    /\ tok.origin = "issue"
    /\ res.at - tok.ts = 301
    /\ ~res.ok

\* C9: Validate rejects a state whose issuedAt lies more than 60 s in the
\* future (59 s ahead: true, 61 s ahead: false).
C9_FutureBoundary ==
    (Authentic /\ tok.ts >= res.at) => (res.ok <=> tok.ts - res.at <= 60)

C9_Witness ==
    /\ Authentic
    /\ tok.ts - res.at = 61
    /\ ~res.ok


\* The state string at hand has been accepted before, the repository asked
\* now holds the key it was sealed with, and the string is inside its window.
Replayable(env) ==
    /\ tok.uses > 0
    /\ getOrGenerateStateKey(env) = getOrGenerateStateKey(tok.by)
    /\ now - tok.ts <= maxAge

\* C26: the stateless encrypted state scheme does not enforce single use:
\* the same issued token validates successfully any number of times while
\* it is inside its 5-minute window, because Validate neither consumes nor
\* records it.
C26_ReplayAccepted ==
    [][\A env \in KeyEnvs :
         (Validate(env) /\ Replayable(env)) =>
            /\ res'.ok
            /\ res'.url = ValidateAndRemoveState(getOrGenerateStateKey(tok.by),
                                                 tok.ts, tok.str).url
            /\ tok'.str = tok.str]_vars

\* An issued state accepted a second time, later than the first and still
\* inside its window.
C26_Witness ==
    /\ tok.origin = "issue"
    /\ tok.uses = MaxUses
    /\ res.done /\ res.ok
    /\ res.url = tok.redirect
    /\ res.at > tok.ts
    /\ res.at - tok.ts <= maxAge

\* Why the repository built under env refuses the state string at hand at
\* time t: it is not base64 of at least a GCM nonce, its tag does not
\* authenticate it under the key, its payload is not the JSON of a payload,
\* or its timestamp is too old or too far ahead ("" when it is accepted).
RefusalCause(env, t) ==
    LET key == getOrGenerateStateKey(env)
        dec == DecodeString(tok.str)
        decrypted == decrypt(key, tok.str)
        parsed == Unmarshal(decrypted.pt)
    IN  IF dec.err \/ dec.data.kind = "short" THEN "encoding"
        ELSE IF decrypted.err THEN "tag"
        ELSE IF parsed.err THEN "payload"
        ELSE IF t - parsed.payload.Timestamp > maxAge THEN "expired"
        ELSE IF parsed.payload.Timestamp > t + futureSkew THEN "ahead"
        ELSE ""

\* C29: Validate gives its caller the same single outcome (empty redirect
\* target, false) for malformed encoding, authentication-tag failure and
\* expiry; the caller-visible result does not reveal which of these causes
\* applied.
C29_RefusalsIndistinguishable ==
    res.done =>
        /\ RefusalCause(res.by, res.at) \in {"encoding", "tag", "expired"} =>
              [url |-> res.url, ok |-> res.ok] = Invalid
        /\ ~res.ok => res.url = ""

\* An issued state with a redirect target, refused for its age alone, with
\* nothing of the target in the answer.
C29_Witness ==
    /\ res.done
    /\ tok.origin = "issue"
    /\ tok.redirect # ""
    /\ RefusalCause(res.by, res.at) = "expired"
    /\ [url |-> res.url, ok |-> res.ok] = Invalid
(***************************************************************************)
(* Properties of the key derivation.                                       *)
(***************************************************************************)
\* The call just made validated, within the freshness window, a state that
\* GenerateEncryptedState produced on an instance of its own.
IssuedElsewhere ==
    /\ res.done
    /\ tok.origin = "issue"
    /\ res.at - tok.ts <= maxAge

\* What an instance hashes: its secret, or the default string when it has
\* none.
SecretMaterial(env) == IF env = "" THEN DefaultSecret ELSE env

EchoValidated ==
    /\ req.src = "idp"
    /\ Len(steps) >= 1
    /\ steps[1].step = "validate"

\* C1: the state that GenerateAuthURL(requestedRedirect) puts in the
\* authorization URL is one the encrypted state codec issued for
\* requestedRedirect: a callback that echoes it within the freshness window
\* passes state validation in HandleCallback and recovers requestedRedirect.
C1_IssuedStateValidates ==
    (/\ stateRepo = "encrypted"
     /\ EchoValidated
     /\ now - flow.url.at <= maxAge)
    => (/\ steps[1].ok
        /\ hc.locals.redirectURL = flow.url.redirect)

\* C2: no login flow produces more than maxAttempts retry redirects: after
\* maxAttempts consecutive recoverable callback failures the flow ends in a
\* terminal failure.  (Stated for the repository whose states do validate.)
C2_AtMostMaxRetryRedirects ==
    stateRepo = "sqlite" => flow.redirects <= MaxOAuthRetryAttempts

\* C3: the retry counter is carried across redirects: the callback that
\* follows a regenerated authorization URL embedding counter n + 1 observes
\* counter n + 1.
C3_CounterCarriedAcrossRedirect ==
    (stateRepo = "sqlite" /\ req.src = "idp" /\ hpc # "idle")
    => getRetryAttempts(req) = getRetryAttempts([oauth_retry |-> flow.url.oauth_retry])

Succeeded(name) == \E j \in 1..Len(steps) : steps[j] = [step |-> name, ok |-> TRUE]

SucceededBefore(name, i) ==
    \E j \in 1..(i - 1) : steps[j] = [step |-> name, ok |-> TRUE]

C5_NoPartialResults ==
    /\ hc.result.err # "" =>
          /\ hc.result.claims = NilClaims
          /\ hc.result.rawIDToken = ""
          /\ hc.result.redirectURL = ""
    /\ \A p \in Procs : sts[p].err # "" => sts[p].creds = NoCreds

C5_Witness ==
    /\ hpc = "respond"
    /\ hc.result.err = "failed to validate ID token"
    /\ hc.locals.rawIDToken.raw # ""
    /\ hc.locals.redirectURL # ""
    /\ hc.result.rawIDToken = ""

\* Where a flow begun with redirect_url = u is to end.
Target(u) == IF u = "" THEN Dashboard ELSE u

\* C18: on a recoverable callback failure the fresh authorization URL is
\* seeded with the redirect target originally requested at login for that
\* flow, so that a later successful callback of the retried flow returns
\* that original target.  (Stated for the repository whose states do
\* validate.)
C18_RetrySeededWithOriginal ==
    /\ (stateRepo = "sqlite" /\ flow.redirects > 0 /\ flow.status = "awaiting") =>
          Target(flow.url.redirect) = Target(flow.requested)
    /\ (stateRepo = "sqlite" /\ flow.redirects > 0 /\ flow.status = "success") =>
          resp.location = Target(flow.requested)

\* This step is the top of CallbackHandler for a request that lacks the
\* code or the state.
ReceivesIncomplete ==
    /\ hpc = "idle"
    /\ \/ flow'.direct = flow.direct + 1
       \/ flow.status = "awaiting" /\ flow'.status = "failed" /\ req'.src = "idp"
    /\ req'.code = "" \/ req'.state = EmptyString

\* C19: a callback with an empty code or an empty state is rejected
\* immediately as MissingInput and is never retried: no state validation,
\* no code exchange and no retry redirect occur for it.
C19_MissingInputRejected ==
    [][ReceivesIncomplete =>
          /\ hpc' = "idle"
          /\ resp'.status = 400
          /\ resp'.kind = IF req'.code = "" THEN "Missing authorization code"
                          ELSE "Missing state parameter"
          /\ resp'.url = NoURL
          /\ steps' = <<>>
          /\ hc' = NoCall
          /\ UNCHANGED <<oauthStates, nonces, oidcReady, cookie, verified>>
          /\ flow'.redirects = flow.redirects
          /\ flow'.url = flow.url]_vars

\* A request with a code and no state was answered 400.
C19_Witness ==
    /\ req.code # ""
    /\ req.state = EmptyString
    /\ req.src = "client"
    /\ hpc = "idle"
    /\ resp = ErrorResponse(400, "Missing state parameter")

\* CallbackHandler answers the request whose HandleCallback call failed
\* upstream.
AnswersUpstreamFailure ==
    /\ hpc = "respond"
    /\ hpc' = "idle"
    /\ hc.result.err \in UpstreamErrors

\* C20 as stated: a network failure of provider discovery, key fetch or code
\* exchange during callback handling is surfaced to the caller without local
\* retry: the orchestrator does not answer it with a retry redirect.
C20_UpstreamFailureNotRetried ==
    [][AnswersUpstreamFailure => resp'.kind # "retry" /\ resp'.status # 302]_vars

\* C20, amended: such a failure is answered like every other HandleCallback
\* failure: while the request's retry counter is below the maximum, with a
\* retry redirect to a fresh authorization URL carrying the counter plus one
\* (or 500 if that URL cannot be generated); it is surfaced as an error only
\* once the counter has reached the maximum.
C20_UpstreamFailureRetriedWithinBudget ==
    [][AnswersUpstreamFailure =>
          IF getRetryAttempts(req) >= MaxOAuthRetryAttempts
          THEN /\ resp'.status = 400
               /\ resp'.kind = "Authentication failed: too many retry attempts"
               /\ nonces' = nonces
          ELSE \/ /\ resp'.status = 302
                  /\ resp'.kind = "retry"
                  /\ resp'.url.oauth_retry = Itoa(getRetryAttempts(req) + 1)
                  /\ resp'.url.state = GenerateSecureState(nonces')
                  /\ nonces' = nonces + 1
               \/ /\ resp'.status = 500
                  /\ resp'.kind = "Failed to restart authentication"
                  /\ ~oidcReady']_vars

\* The browser of the flow was answered an upstream failure with a retry
\* redirect.
C20_Witness ==
    /\ resp.upstream
    /\ resp.kind = "retry"
    /\ resp.status = 302
    /\ resp.url.oauth_retry = "1"
    /\ flow.redirects > 0

\* C30: the retry parameter placed on a regenerated authorization URL is an
\* integer attempt count capped at the configured maximum: for every
\* callback request, whatever retry value it carries, an emitted retry URL
\* has a counter between 1 and maxAttempts (3).
C30_RetryCounterInRange ==
    resp.kind = "retry" =>
        /\ ~Atoi(resp.url.oauth_retry).err
        /\ Atoi(resp.url.oauth_retry).n \in 1..MaxOAuthRetryAttempts
(***************************************************************************)
(* Properties of the cache's lock.                                         *)
(***************************************************************************)
\* The goroutines between Lock() and Unlock(): they write the map.
Writing == {g \in CacheGoroutines : cacheOps[g].pc \in {"insert", "assign", "make", "unlock"}}

\* The goroutines between RLock() and RUnlock(): they read the map.
Reading == {g \in CacheGoroutines : cacheOps[g].pc \in {"read", "runlock"}}

\* The credentials whose entry has been put under a key.
StoredUnder(h) ==
    {cacheOps[f].creds : f \in {e \in CacheGoroutines :
                                   /\ cacheOps[e].op = "set"
                                   /\ cacheOps[e].key = h
                                   /\ cacheOps[e].pc \in {"unlock", "done"}}}

\* C36: all accesses to the process-wide credential cache follow the
\* read/write lock discipline: a write is mutually exclusive with every
\* other write and read, reads do not exclude each other, and a concurrent
\* reader observes for a key either no entry or a completely stored entry
\* (including while clearSTSCache replaces the map).
C36_LockDiscipline ==
    /\ Cardinality(Writing) <= 1
    /\ Writing # {} => Reading = {}
    /\ Writing \subseteq {stsCacheMutex.writer}
    /\ Reading = stsCacheMutex.readers
    /\ \A g \in CacheGoroutines :
          /\ (cacheOps[g].pc = "rlock" /\ stsCacheMutex.writer = 0) => ENABLED RLock(g)
          /\ cacheOps[g].seen \in {"", "absent", "entry"}
          /\ cacheOps[g].result # NoCreds =>
                /\ cacheOps[g].seen = "entry"
                /\ cacheOps[g].result \in StoredUnder(cacheOps[g].key)
    /\ \A h \in DOMAIN stsCache :
          stsCache[h] = HalfStored =>
              \E g \in Writing : cacheOps[g].pc = "assign" /\ cacheOps[g].key = h

\* Two readers hold the lock at once, and one of them has found the entry
\* a writer stored before.
C36_Witness ==
    \E w, r1, r2 \in CacheGoroutines :
        /\ r1 # r2
        /\ cacheOps[w].op = "set" /\ cacheOps[w].pc = "done"
        /\ cacheOps[r1].pc = "runlock"
        /\ cacheOps[r1].result = cacheOps[w].creds
        /\ cacheOps[r2].pc = "read"
        /\ stsCacheMutex.readers = {r1, r2}
(***************************************************************************)
(* Properties of the credential broker.                                    *)
(***************************************************************************)
\* The AssumeRoleWithWebIdentity requests made with a token string.
FederationCalls(raw) == {i \in 1..Len(stsCalls) : stsCalls[i].token = raw}

\* The calls begun so far with a token string.
CallsWith(raw) == {r \in Procs : sts[r].pc # "idle" /\ sts[r].token.raw = raw}

\* Call q began after call p had returned credentials for the same token,
\* at a time when those credentials had more than the buffer left to live,
\* and these are the only two calls made with that token.
CalledTwice(p, q) ==
    /\ sts[q].pc # "idle"
    /\ p \in sts[q].after
    /\ sts[q].at + cacheExpirationBuffer < sts[p].creds.Expiration
    /\ CallsWith(sts[q].token.raw) = {p, q}

\* C10: calling GetCredentials twice with the same raw token within the
\* safety-buffered validity window of the stored credentials makes exactly
\* one federation call, and the second call returns credentials identical to
\* the first.
C10_SecondCallFromCache ==
    \A p, q \in Procs :
        CalledTwice(p, q) =>
            /\ sts[q].pc = "done"
            /\ sts[q].err = ""
            /\ sts[q].creds = sts[p].creds
            /\ sts[q].creds # NoCreds
            /\ Cardinality(FederationCalls(sts[q].token.raw)) = 1

C10_Witness ==
    \E p, q \in Procs :
        /\ CalledTwice(p, q)
        /\ sts[q].at > sts[p].at
        /\ sts[q].via = "cache"
        /\ sts[p].via = "sts"
        /\ sts[q].creds = sts[p].creds
        /\ Len(stsCalls) = 1

\* Call q has just begun: this step is its cache lookup.
Begins(q) == sts[q].pc = "idle" /\ sts'[q].pc # "idle"

\* The federation requests call q made.
CallsBy(q) == {i \in 1..Len(stsCalls) : stsCalls[i].by = q}

\* C11 as stated: a cached credential is returned only while
\* expiration - now > 5 minutes; once now + safetyBuffer >= expiration
\* GetCredentials never returns the entry.
C11_ReturnedOnlyWithMoreThanBuffer ==
    \A q \in Procs :
        sts[q].via = "cache" =>
            sts[q].creds.Expiration - sts[q].at > cacheExpirationBuffer

\* C11, amended: a call that finds an entry for its token returns the entry's
\* credentials exactly when expiration - now >= 5 minutes, without a
\* federation call; once now + safetyBuffer > expiration it does not return
\* the entry and goes on to the federation call.
C11_FreshnessBoundary ==
    [][\A q \in Procs :
         LET h == hashToken(sts'[q].token.raw) IN
         (Begins(q) /\ h \in DOMAIN stsCache) =>
            IF now + cacheExpirationBuffer <= stsCache[h].expiresAt
            THEN /\ sts'[q].pc = "done"
                 /\ sts'[q].via = "cache"
                 /\ sts'[q].err = ""
                 /\ sts'[q].creds = stsCache[h].creds
                 /\ stsCalls' = stsCalls
            ELSE /\ sts'[q].pc = "assume"
                 /\ sts'[q].via = ""
                 /\ sts'[q].creds = NoCreds]_vars

\* A call answered from the cache with exactly the buffer left.
C11_Witness ==
    \E p \in Procs :
        /\ sts[p].via = "cache"
        /\ sts[p].creds.Expiration - sts[p].at = cacheExpirationBuffer
        /\ CallsBy(p) = {}

\* C12: two distinct identity tokens produce two independent cache entries
\* and two federation calls; an entry created for one token never satisfies
\* a lookup for a different token.
C12_EntriesPerToken ==
    /\ \A q \in Procs :
          sts[q].via = "cache" =>
              /\ sts[q].creds.AccessKeyID \in FederationCalls(sts[q].token.raw)
              /\ CallsBy(q) = {}
    /\ \A p, q \in Procs :
          (/\ sts[p].pc = "done" /\ sts[p].err = ""
           /\ sts[q].pc = "done" /\ sts[q].err = ""
           /\ sts[p].token.raw # sts[q].token.raw) =>
              /\ FederationCalls(sts[p].token.raw) # {}
              /\ FederationCalls(sts[q].token.raw) # {}
              /\ Len(stsCalls) >= 2
              /\ sts[p].creds # sts[q].creds
              /\ hashToken(sts[p].token.raw) # hashToken(sts[q].token.raw)
              /\ {hashToken(sts[p].token.raw), hashToken(sts[q].token.raw)}
                    \subseteq DOMAIN stsCache
    /\ \A t \in IDTokens :
          hashToken(t.raw) \in DOMAIN stsCache =>
              stsCache[hashToken(t.raw)].creds.AccessKeyID \in FederationCalls(t.raw)

C12_Witness ==
    \E p, q \in Procs :
        /\ sts[p].via = "sts" /\ sts[q].via = "sts"
        /\ sts[p].pc = "done" /\ sts[q].pc = "done"
        /\ sts[p].token.raw # sts[q].token.raw
        /\ sts[p].after = {} /\ sts[q].after = {}
        /\ Len(stsCalls) = 2
        /\ Cardinality(DOMAIN stsCache) = 2

\* The token names a preferred role that its allowed-roles list lacks.
PreferredOutsideAllowed(token) ==
    /\ token.jwt
    /\ token.claims.PreferredRole # ""
    /\ Len(token.claims.Roles) > 0
    /\ \A i \in 1..Len(token.claims.Roles) :
          token.claims.Roles[i] # token.claims.PreferredRole

\* C13: if the token carries an allowed-roles list and the selected role is
\* not a member of it (preferredRole = R1, allowedRoles = [R2]),
\* GetCredentials fails with RoleNotPermitted, makes no federation call and
\* does not fall back to another role.
C13_RoleNotPermitted ==
    \A p \in Procs :
        (/\ sts[p].pc # "idle"
         /\ ~oauthConfig.nil
         /\ PreferredOutsideAllowed(sts[p].token)) =>
            /\ sts[p].pc = "done"
            /\ sts[p].err = "role is not in the allowed roles from token"
            /\ sts[p].creds = NoCreds
            /\ sts[p].role = ""
            /\ CallsBy(p) = {}
            /\ FederationCalls(sts[p].token.raw) = {}

C13_Witness ==
    \E p \in Procs :
        /\ sts[p].token = OutsideToken
        /\ sts[p].pc = "done"
        /\ sts[p].err = "role is not in the allowed roles from token"
        /\ oauthConfig.STSRoleARN = "role/Default"

\* The role the selection order gives: the preferred-role claim, else the
\* first allowed role, else the configured fallback.
RoleByPriority(token) ==
    CASE token.claims.PreferredRole # "" -> token.claims.PreferredRole
      [] token.claims.PreferredRole = "" /\ token.claims.Roles # <<>> ->
            Head(token.claims.Roles)
      [] OTHER -> oauthConfig.STSRoleARN

\* C14: role selection takes the preferred-role claim if present, else the
\* first entry of the allowed-roles list, else the configured fallback role;
\* preferredRole = R1 with allowedRoles = [R2, R1] selects R1 even when a
\* fallback R3 is configured.  Every federation request names that role.
C14_SelectionOrder ==
    /\ \A p \in Procs :
          sts[p].pc \in {"assume", "store"} \/ sts[p].via = "sts" =>
              sts[p].role = RoleByPriority(sts[p].token)
    /\ \A i \in 1..Len(stsCalls) :
          stsCalls[i].role = RoleByPriority(sts[stsCalls[i].by].token)

C14_Witness ==
    \E i \in 1..Len(stsCalls) :
        /\ sts[stsCalls[i].by].token.claims.PreferredRole = "role/Admin"
        /\ sts[stsCalls[i].by].token.claims.Roles = <<"role/User", "role/Admin">>
        /\ oauthConfig.STSRoleARN = "role/Default"
        /\ stsCalls[i].role = "role/Admin"

\* C15: with no preferred-role claim, no allowed-roles entries and no
\* fallback role configured, GetCredentials fails with NoResolvableRole and
\* performs no federation call.
C15_NoResolvableRole ==
    \A p \in Procs :
        (/\ sts[p].pc # "idle"
         /\ ~oauthConfig.nil
         /\ oauthConfig.STSRoleARN = ""
         /\ sts[p].token.jwt
         /\ sts[p].token.claims.PreferredRole = ""
         /\ sts[p].token.claims.Roles = <<>>) =>
            /\ sts[p].pc = "done"
            /\ sts[p].err = "no role ARN available"
            /\ sts[p].creds = NoCreds
            /\ CallsBy(p) = {}
            /\ FederationCalls(sts[p].token.raw) = {}

C15_Witness ==
    \E p \in Procs :
        /\ sts[p].token = PlainToken
        /\ ~oauthConfig.nil
        /\ oauthConfig.STSRoleARN = ""
        /\ sts[p].pc = "done"
        /\ sts[p].err = "no role ARN available"

\* Calls p and q, for the same token, both missed the cache and federated:
\* neither began after the other had returned.
MissedTogether(p, q) ==
    /\ p # q
    /\ sts[p].token.raw = sts[q].token.raw
    /\ sts[p].via = "sts" /\ sts[q].via = "sts"
    /\ p \notin sts[q].after
    /\ q \notin sts[p].after

\* The credentials the federation request number i returned.
IssuedBy(creds, r) ==
    /\ creds # NoCreds
    /\ creds.AccessKeyID \in CallsBy(r)

\* C17: when two requests concurrently miss the cache for the same token,
\* both perform the federation call and both return the credentials they
\* obtained; the cache then holds one entry for that key, and every write
\* replaces it: it equals the result of whichever write happened last.
C17_LastWriteWins ==
    [][/\ \A p, q \in Procs :
             MissedTogether(p, q)' =>
                 /\ IssuedBy(sts[p].creds, p)' /\ IssuedBy(sts[q].creds, q)'
                 /\ (sts[p].creds # sts[q].creds)'
                 /\ (Cardinality(FederationCalls(sts[p].token.raw)) >= 2)'
                 /\ (hashToken(sts[p].token.raw) \in DOMAIN stsCache)'
       /\ \A p \in Procs :
             (sts[p].pc = "store" /\ sts'[p].pc = "done") =>
                 LET h == hashToken(sts[p].token.raw) IN
                 /\ sts'[p].creds = sts[p].out
                 /\ DOMAIN stsCache' = DOMAIN stsCache \cup {h}
                 /\ stsCache'[h].creds = sts[p].out
                 /\ stsCache'[h].expiresAt = sts[p].out.Expiration
                 /\ \A k \in DOMAIN stsCache \ {h} : stsCache'[k] = stsCache[k]]_vars

\* Two calls missed together; STS answered p before q, p stored after q, and
\* the entry is p's result.
C17_Witness ==
    \E p, q \in Procs :
        /\ MissedTogether(p, q)
        /\ sts[p].pc = "done" /\ sts[q].pc = "done"
        /\ sts[p].creds.AccessKeyID < sts[q].creds.AccessKeyID
        /\ stsCache[hashToken(sts[p].token.raw)].creds = sts[p].creds

\* The errors GetSTSCredentials returns for a failed federation call.
FederationFailures ==
    {"failed to assume role with web identity", "STS returned no credentials"}

\* C21: if the federation call fails, GetCredentials propagates the failure
\* to its caller after exactly one federation call; it never retries the
\* federation endpoint locally.
C21_FailurePropagatedWithoutRetry ==
    \A p \in Procs :
        /\ Cardinality(CallsBy(p)) <= 1
        /\ sts[p].err \in FederationFailures =>
              /\ sts[p].pc = "done"
              /\ sts[p].creds = NoCreds
              /\ Cardinality(CallsBy(p)) = 1

\* A call whose one federation request failed, returned with the error and
\* nothing stored.
C21_Witness ==
    \E p \in Procs :
        /\ sts[p].pc = "done"
        /\ sts[p].err = "failed to assume role with web identity"
        /\ Cardinality(CallsBy(p)) = 1
        /\ hashToken(sts[p].token.raw) \notin DOMAIN stsCache

\* Call p returns from its store in this step.
Stores(p) == sts[p].pc = "store" /\ sts'[p].pc = "done"

\* Times from now on at which credentials still have the buffer left.
WindowOf(creds) ==
    {t \in {now, now + 1, creds.Expiration - cacheExpirationBuffer} :
        t >= now /\ t + cacheExpirationBuffer <= creds.Expiration}

\* C28: after a successful federation call for a token, the cache entry
\* under that token's key holds exactly the returned credentials and their
\* expiration, overwriting any existing entry, so the next lookup within the
\* validity window returns the new credentials and not the replaced ones.
C28_StoredEntryServesLookups ==
    [][\A p \in Procs :
         Stores(p) =>
            LET h == hashToken(sts[p].token.raw)
                out == sts[p].out
            IN  /\ out # NoCreds
                /\ stsCache'[h] = [creds |-> out, expiresAt |-> out.Expiration]
                /\ \A t \in WindowOf(out) :
                      getCachedCredentials(stsCache', t, h) = out
                /\ h \in DOMAIN stsCache =>
                      /\ stsCache[h].creds # out
                      /\ \A t \in {now, now + 1, stsCache[h].expiresAt - cacheExpirationBuffer} :
                            getCachedCredentials(stsCache', t, h) # stsCache[h].creds]_vars

\* Call p stored credentials that were stale at once; call q, made after p
\* had returned, went to STS and stored over them; a lookup now returns q's.
C28_Witness ==
    \E p, q \in Procs :
        LET h == hashToken(sts[q].token.raw) IN
        /\ sts[p].pc = "done" /\ sts[q].pc = "done"
        /\ sts[p].via = "sts" /\ sts[q].via = "sts"
        /\ sts[p].token.raw = sts[q].token.raw
        /\ p \in sts[q].after
        /\ sts[p].creds # sts[q].creds
        /\ stsCache[h].creds = sts[q].creds
        /\ getCachedCredentials(stsCache, now, h) = sts[q].creds

\* Call p returns an error in this step.
Fails(p) == sts[p].pc # "done" /\ sts'[p].pc = "done" /\ sts'[p].err # ""

\* Call p has returned an error.
Failed(p) == sts[p].pc = "done" /\ sts[p].err # ""

\* The errors of a call that got as far as the federation endpoint.
EndpointFailures == FederationFailures \cup {"failed to load AWS config"}

\* C34: a failed GetCredentials call (role resolution, authorization or
\* federation failure, or a federation response without credentials) leaves
\* the credential cache unchanged and returns no credentials; no entry holds
\* anything the failed call obtained; a later call with the same token is
\* not answered from the failed call: it goes to the federation endpoint
\* again, or fails the same local check again.
C34_FailureLeavesCacheUnchanged ==
    [][/\ \A p \in Procs :
             Fails(p) => /\ stsCache' = stsCache
                         /\ sts'[p].creds = NoCreds
       /\ \A p \in Procs, h \in DOMAIN stsCache :
             Failed(p) => stsCache[h].creds.AccessKeyID \notin CallsBy(p)
       /\ \A p, q \in Procs :
             (/\ Failed(p)
              /\ Begins(q)
              /\ sts'[q].token.raw = sts[p].token.raw) =>
                 /\ sts'[q].via = "cache" => sts'[q].creds.AccessKeyID \notin CallsBy(p)
                 /\ hashToken(sts[p].token.raw) \notin DOMAIN stsCache =>
                       IF sts[p].err \in EndpointFailures
                       THEN sts'[q].pc = "assume" /\ sts'[q].creds = NoCreds
                       ELSE sts'[q].pc = "done" /\ sts'[q].err = sts[p].err]_vars

\* The federation request of call p failed and nothing was stored; call q,
\* made later with the same token, sent a request of its own and returned
\* what it obtained.
C34_Witness ==
    \E p, q \in Procs :
        /\ p < q
        /\ Failed(p)
        /\ sts[p].err \in FederationFailures
        /\ sts[q].token.raw = sts[p].token.raw
        /\ sts[q].pc = "done" /\ sts[q].via = "sts"
        /\ Cardinality(CallsBy(p)) = 1
        /\ IssuedBy(sts[q].creds, q)
        /\ Cardinality(FederationCalls(sts[q].token.raw)) = 2

\* Call p has returned credentials.
Returned(p) == sts[p].pc = "done" /\ sts[p].err = ""

\* C35: every credential returned by GetCredentials(t), whether fresh or
\* from the cache, was obtained by a federation call made with token t
\* itself and with a role that passed role selection and the allowed-roles
\* check for t's claims; no caller receives credentials issued for another
\* token.
C35_CredentialsOfOwnToken ==
    \A p \in Procs :
        Returned(p) =>
            LET i == sts[p].creds.AccessKeyID
                claims == parseTokenClaims(sts[p].token).claims
            IN  /\ sts[p].creds # NoCreds
                /\ i \in FederationCalls(sts[p].token.raw)
                /\ ~parseTokenClaims(sts[p].token).err
                /\ stsCalls[i].role # ""
                /\ stsCalls[i].role = selectRoleARN(claims, oauthConfig)
                /\ Len(claims.Roles) > 0 => isRoleAllowed(stsCalls[i].role, claims.Roles)
                /\ \A q \in Procs :
                      sts[q].token.raw # sts[p].token.raw => i \notin CallsBy(q)

\* One call federated for a token with an allowed-roles list, with the
\* token's preferred role, and stored; the other call, for the same token,
\* was answered from the cache with what the first obtained.
C35_Witness ==
    \E p, q \in Procs :
        /\ p # q
        /\ Returned(p) /\ sts[p].via = "sts"
        /\ Returned(q) /\ sts[q].via = "cache"
        /\ Len(sts[q].token.claims.Roles) > 0
        /\ sts[q].creds.AccessKeyID \in CallsBy(p)
        /\ stsCalls[sts[q].creds.AccessKeyID].token = sts[q].token.raw
        /\ stsCalls[sts[q].creds.AccessKeyID].role = sts[q].token.claims.PreferredRole

\* The token names a preferred role and carries no allowed-roles list.
PreferredWithoutAllowed(token) ==
    /\ token.jwt
    /\ token.claims.PreferredRole # ""
    /\ token.claims.Roles = <<>>

\* C37: the allowed-roles check only activates when the allowed-roles claim
\* is present: a token carrying a preferred-role claim and no allowed-roles
\* list has its preferred role selected and sent to the federation endpoint
\* with no authorization check.
C37_NoListNoCheck ==
    \A p \in Procs :
        (/\ sts[p].pc # "idle"
         /\ ~oauthConfig.nil
         /\ PreferredWithoutAllowed(sts[p].token)) =>
            /\ sts[p].err \notin {"role is not in the allowed roles from token",
                                  "no role ARN available",
                                  "failed to parse token claims"}
            /\ sts[p].via # "cache" =>
                  /\ sts[p].pc \in {"assume", "store", "done"}
                  /\ sts[p].role = sts[p].token.claims.PreferredRole
            /\ \A i \in CallsBy(p) : stsCalls[i].role = sts[p].token.claims.PreferredRole

\* The preferred role of a token without a list, other than the configured
\* fallback, went to the endpoint and came back with credentials.
C37_Witness ==
    \E p \in Procs :
        /\ PreferredWithoutAllowed(sts[p].token)
        /\ oauthConfig.STSRoleARN = "role/Default"
        /\ Returned(p) /\ sts[p].via = "sts"
        /\ stsCalls[sts[p].creds.AccessKeyID].role = "role/Admin"
        /\ stsCalls[sts[p].creds.AccessKeyID].by = p
(***************************************************************************)
(* Properties of the storage-backed repository.                            *)
(***************************************************************************)
\* Calls p and q have returned, both were made with the same state, and q
\* was made later than p (goroutines are numbered in the order of their calls).
LaterCall(p, q) ==
    /\ p < q
    /\ repoCalls[p].pc = "done"
    /\ repoCalls[q].pc = "done"
    /\ repoCalls[q].state = repoCalls[p].state

\* C27: with the storage-backed state repository, a stored state is one-time
\* use: after StoreState(s, url, expiry), the first ValidateAndRemoveState(s)
\* before expiry returns (url, true) and every later
\* ValidateAndRemoveState(s) returns ("", false).
C27_OneTimeUse ==
    \A p, q \in Validators :
        (LaterCall(p, q) /\ repoCalls[p].ok) =>
            /\ ~repoCalls[q].ok
            /\ repoCalls[q].url = ""


\* Call p has found the row of its state and has not returned yet: what it
\* returns is settled, (url, true), whatever becomes of its DELETE.
ReturnsTrue(p) == repoCalls[p].pc = "delete"

\* C33: with the storage-backed state repository, when two callbacks validate
\* the same stored state concurrently, at most one of the two
\* ValidateAndRemoveState calls returns true: two calls under way at the
\* same time for one state are never both past a SELECT that found the row.
C33_AtMostOneConcurrentWinner ==
    \A p, q \in Validators :
        (/\ p # q
         /\ repoCalls[p].state = repoCalls[q].state
         /\ ReturnsTrue(p))
        => ~ReturnsTrue(q)
(***************************************************************************)
(* Properties of the verifier's one-time initialisation.                   *)
(***************************************************************************)
\* The discovery requests not yet answered.
Pending == {i \in 1..Len(discoveries) : discoveries[i].result = "pending"}

\* The discovery requests that brought the provider metadata.
Answered == {i \in 1..Len(discoveries) : discoveries[i].result = "ok"}

\* C16 as stated: for any number of concurrent first callers of the token
\* verifier, provider discovery is fetched once and provider metadata is
\* written at most once per process lifetime; the other callers block until
\* that fetch completes rather than issuing discovery requests of their own.
C16_DiscoveryFetchedOnce ==
    /\ Len(discoveries) <= 1
    /\ Cardinality(Answered) <= 1
    /\ Pending # {} =>
          \A q \in Callers : validating[q].pc = "fetch" => providerMutex = q

\* C16, amended: at most one discovery request is under way at any time,
\* made by the holder of the mutex, and the other first callers wait for it;
\* provider metadata is written at most once and no discovery request follows
\* the one that succeeded; a request that failed is followed by the request
\* of the next caller.
C16_SingleFlightDiscovery ==
    /\ \A i \in Pending :
          /\ i = Len(discoveries)
          /\ providerMutex = discoveries[i].by
          /\ validating[discoveries[i].by].pc = "fetch"
          /\ \A q \in Callers \ {discoveries[i].by} :
                \/ validating[q].pc \in {"idle", "lock"}
                \/ validating[q].pc = "done" /\ validating[q].err # ""
    /\ \A q \in Callers : validating[q].pc = "fetch" => providerMutex = q
    /\ \A i \in 1..Len(discoveries) : i < Len(discoveries) => discoveries[i].result = "failed"
    /\ Cardinality(Answered) <= 1
    /\ oidcProvider <=> Answered # {}
    /\ \A i, j \in 1..Len(discoveries) : discoveries[i].by = discoveries[j].by => i = j

\* One first caller is fetching, two others wait for the mutex.
C16_Witness ==
    \E p, q, r \in Callers :
        /\ p # q /\ q # r /\ p # r
        /\ validating[p].pc = "fetch"
        /\ validating[q].pc = "lock" /\ validating[q].kind = "validate"
        /\ validating[r].pc = "lock" /\ validating[r].kind = "validate"
        /\ Len(discoveries) = 1

\* C31: token verification never uses an uninitialised verifier: whenever a
\* caller is at (or has made) the call oidcVerifier.Verify, the provider and
\* the verifier are both set; no call ends in a nil dereference.
C31_VerifyOnlyWithVerifier ==
    \A p \in Callers :
        validating[p].pc \in {"verify", "panic"} => oidcProvider /\ oidcVerifier

\* The discovery requests that failed.
FailedDiscoveries == {i \in 1..Len(discoveries) : discoveries[i].result = "failed"}

\* The last discovery request made has failed.
LastDiscoveryFailed ==
    /\ discoveries # <<>>
    /\ discoveries[Len(discoveries)].result = "failed"

\* The configuration names the issuer.
NamesIssuer(config) == config.UserPoolID # "" /\ config.Region # ""

\* C32: a failed provider discovery is not cached.  The call whose fetch
\* failed returns an error; while the failed fetch is the last one made the
\* provider and the verifier are unset; and the next caller that enters the
\* initialiser with the issuer's configuration sends a discovery request of
\* its own.
C32_FailedDiscoveryNotCached ==
    [][/\ \A i \in FailedDiscoveries :
             /\ validating[discoveries[i].by].pc = "done"
             /\ validating[discoveries[i].by].err = "failed to create OIDC provider"
       /\ LastDiscoveryFailed => ~oidcProvider /\ ~oidcVerifier
       /\ \A q \in Callers :
             (/\ LastDiscoveryFailed
              /\ initOIDCProviderFromOAuthConfig(q)
              /\ NamesIssuer(validating[q].config))
             => /\ validating'[q].pc = "fetch"
                /\ Len(discoveries') = Len(discoveries) + 1
                /\ discoveries'[Len(discoveries')] = [by |-> q, result |-> "pending"]]_vars

\* A discovery failed, the next one succeeded, and the token of the caller
\* that made it has been verified.
C32_Witness ==
    \E i, j \in 1..Len(discoveries) :
        /\ i < j
        /\ discoveries[i].result = "failed"
        /\ discoveries[j].result = "ok"
        /\ validating[discoveries[j].by].kind = "validate"
        /\ validating[discoveries[j].by].pc = "done"
        /\ validating[discoveries[j].by].err = ""
(***************************************************************************)
(* Properties of the principal.                                            *)
(***************************************************************************)
\* A verification has succeeded and returned a principal.
Produced == principal.via # "" /\ principal.err = ""

\* C22: every principal returned by successful token verification has a
\* non-empty role, taken from a claim, computed by the injected default-role
\* function, or set to the static fallback.
C22_RoleNeverEmpty ==
    Produced =>
        /\ principal.claims.Role # ""
        /\ principal.claims.Role \in
              {principal.explicit, "user"}
              \cup {CalculateDefaultRole(f, principal.handed) :
                      f \in DefaultRoleFunctions \ {Nil}}

\* C23: token verification resolves the principal's role in this order: an
\* explicit role claim on the token if present; else the injected
\* default-role function applied to the claims if one is configured; else
\* the static fallback "user".
C23_RoleResolutionOrder ==
    Produced =>
        principal.claims.Role =
            IF principal.explicit # "" THEN principal.explicit
            ELSE IF principal.fn # Nil
                 THEN CalculateDefaultRole(principal.fn, principal.handed)
            ELSE "user"

\* C24: if the verified identity carries no email attribute at all,
\* verification fails and no principal is produced.
C24_NoEmailNoPrincipal ==
    (principal.via # "" /\ principal.email = "") =>
        /\ principal.err # ""
        /\ principal.claims = NoPrincipalClaims

(***************************************************************************)
(* Properties of the network-bound calls.                                  *)
(***************************************************************************)
\* C25: every network-bound call of the pipeline (authorization-code
\* exchange, provider discovery, federation exchange) honours the
\* caller-supplied cancellation/deadline signal: once the caller's deadline
\* expires or the caller cancels, the call stops and fails with an upstream
\* failure.
C25_CallsEndWithCallersContext ==
    /\ (netcall.pc = "done" /\ CallerDone(netcall, netcall.ended)) =>
          netcall.err \in {"upstream: context canceled",
                           "upstream: context deadline exceeded"}
    /\ (netcall.pc = "waiting" /\ CallerDone(netcall, now)) => ENABLED ContextEnds

(***************************************************************************)
(* Properties of AWS operations under a request's context.                 *)
(***************************************************************************)
\* C39: for a context produced by WithUserAWSCredentials from a request
\* carrying a JWT, AWS operations configured through loadAWSConfig use the
\* STS credentials exchanged for that JWT: the configuration loadAWSConfig
\* returns has the static provider over credentials a federation call made
\* with the request's token returned.
C39_UserCredentialsUsed ==
    (/\ awsLoad.pc = "done"
     /\ awsLoad.jwt.raw # ""
     /\ awsLoad.err = "") =>
        /\ awsLoad.provider = "static"
        /\ awsLoad.creds # NoCreds
        /\ awsLoad.creds.AccessKeyID \in FederationCalls(awsLoad.jwt.raw)
====
